---- MODULE Spec2Model ----
(***************************************************************************)
(* Freight-rate quoting of Calc--Test-2.  The repository holds several     *)
(* variants of calculateFreightRate; each is modelled from its own source  *)
(* and a quote is served by exactly one of them:                           *)
(*   "basic"     src/freight_calculator.js:34   (SCFI, FBX, WCI)           *)
(*   "enhanced"  src/freight_calculator.js:359  (ten indices, seasonality, *)
(*               fuel surcharge, calculation history)                      *)
(*   "indexed"   src/unnamed/part_001:63        (hash base + adjustments)  *)
(*   "mock"      src/server_updated.js:192      (built-in source table)    *)
(*   "simple"    src/server.js:1196             (POST /api/calculate)      *)
(* Money is kept exact: a result carries integer numerators over the       *)
(* denominator den; reliability is relNum / relDen.  Math.round(x) is      *)
(* floor(x + 1/2) over the reals (IEEE rounding of intermediate products   *)
(* is not modelled).  TLC integers are 32 bits wide, so wide products are  *)
(* compared limb by limb and the 32-bit string hash is kept in two 16-bit  *)
(* halves.                                                                 *)
(***************************************************************************)
EXTENDS Integers, Sequences, FiniteSets, TLC

VARIABLES
  pc,                   \* position of the quote in flight
  calc,                 \* variant of calculateFreightRate serving it
  req,                  \* arguments of the call
  adapters,             \* what each adapter answers for this quote (environment)
  sourcesData,          \* readings the code kept
  ctx,                  \* locals of the calculator: factors awaited, band computed
  res,                  \* what the call returned or threw
  calculation_history,  \* rows of calculation_history (Return forgets them: the
                        \* quote specifications follow one quote at a time)
  prev,                 \* an earlier quote made without any reading
  module,               \* which seasonality_analyzer.js module is deployed
  historical_rates,     \* rows of historical_rates, in insertion order
  seasonality_factors,  \* rows of seasonality_factors by <<origin, destination, month>>
  boot,                 \* position of initializeSystem
  analysis,             \* position and answer of each retraining request
  audit,                \* what the last batch of store writes met
  trained,              \* a training pass completed and the store is as it read it
  lookup,               \* a seasonality lookup: its arguments and its answer
  freight_indices_scfi, \* rows of freight_indices_scfi
  read,                 \* a read of the SCFI adapter: its arguments and its answer
  tx,                   \* position of each transactional routine in flight
  checkedOut,           \* clients of the pool checked out and not released
  verify,               \* position of each verifyEmail call in flight
  verified_emails       \* rows of the table verified_emails, in insertion order

quoteVars == <<pc, calc, req, adapters, sourcesData, ctx, res, prev>>

analyzerVars ==
  <<module, historical_rates, seasonality_factors, boot, analysis, audit, trained>>

serviceVars ==
  <<lookup, freight_indices_scfi, read, tx, checkedOut, verify, verified_emails>>

vars ==
  <<pc, calc, req, adapters, sourcesData, ctx, res, calculation_history, prev,
    module, historical_rates, seasonality_factors, boot, analysis, audit, trained,
    serviceVars>>

----------------------------------------------------------------------------
(* Arithmetic helpers *)

Min(a, b) == IF a <= b THEN a ELSE b

Max(a, b) == IF a >= b THEN a ELSE b

Abs(a) == IF a < 0 THEN -a ELSE a

\* Math.round(a / b) for a >= 0, b > 0: floor(a/b + 1/2)
RoundDiv(a, b) == (a \div b) + (IF 2 * (a % b) >= b THEN 1 ELSE 0)

Limb == 2 ^ 15

\* a * b for 0 <= a, b < 2^30 as three limbs <<hi, mid, lo>> (base 2^15, hi wide)
Mul(a, b) ==
  LET a1 == a \div Limb
      a0 == a % Limb
      b1 == b \div Limb
      b0 == b % Limb
      p0 == a0 * b0
      p1 == a1 * b0 + a0 * b1 + (p0 \div Limb)
  IN  <<a1 * b1 + (p1 \div Limb), p1 % Limb, p0 % Limb>>

\* a * b <= c * d without overflowing
LeqMul(a, b, c, d) ==
  LET x == Mul(a, b)
      y == Mul(c, d)
  IN  \/ x[1] < y[1]
      \/ x[1] = y[1] /\ x[2] < y[2]
      \/ x[1] = y[1] /\ x[2] = y[2] /\ x[3] <= y[3]

RECURSIVE SumSeq(_)
SumSeq(s) == IF s = <<>> THEN 0 ELSE Head(s) + SumSeq(Tail(s))

RECURSIVE SumSq(_)
SumSq(s) == IF s = <<>> THEN 0 ELSE Head(s) * Head(s) + SumSq(Tail(s))

\* Math.min(...s) and Math.max(...s) of a non-empty s
RECURSIVE MinSeq(_)
MinSeq(s) == IF Len(s) = 1 THEN s[1] ELSE Min(Head(s), MinSeq(Tail(s)))

RECURSIVE MaxSeq(_)
MaxSeq(s) == IF Len(s) = 1 THEN s[1] ELSE Max(Head(s), MaxSeq(Tail(s)))

----------------------------------------------------------------------------
(* Reference data *)

\* ports rows seeded by initializeDatabase; name as its UTF-16 code units
Ports ==
  [CNSHA |-> [id |-> "CNSHA", name |-> <<83, 104, 97, 110, 103, 104, 97, 105>>,
              label |-> "Shanghai", region |-> "Asia"],
   NLRTM |-> [id |-> "NLRTM", name |-> <<82, 111, 116, 116, 101, 114, 100, 97, 109>>,
              label |-> "Rotterdam", region |-> "Europe"]]

PortIds == DOMAIN Ports

\* weights requested by the callers of the model (kg)
Weights == {500, 10000, 20000, 25000, 50000}

\* current_index values the adapters may report
Readings == {1, 1800, 1900, 2000, 3000}

\* adapter outcomes: a reading, no reading (null), or a thrown error
NoReading == 0

Thrown == -1

Outcomes == Readings \cup {NoReading, Thrown}

----------------------------------------------------------------------------
(* String hash of calculateBaseRate: hash = ((hash << 5) - hash) + code,    *)
(* then hash & hash (ToInt32).  The 32-bit pattern is <<hi, lo>>, two       *)
(* 16-bit halves; 31 * hash + code is taken modulo 2^32.                    *)

Half == 2 ^ 16

HashStep(h, code) ==
  LET lo == 31 * h[2] + code
      hi == 31 * h[1] + (lo \div Half)
  IN  <<hi % Half, lo % Half>>

RECURSIVE HashChars(_, _)
HashChars(h, name) ==
  IF name = <<>> THEN h ELSE HashChars(HashStep(h, Head(name)), Tail(name))

\* int32 % 1500 without Math.abs: the remainder has the sign of the hash
Mod1500Signed(h) ==
  LET u == ((h[1] % 1500) * 1036 + h[2]) % 1500
  IN  IF h[1] >= 2 ^ 15 THEN 0 - ((796 + 1500 - u) % 1500) ELSE u

\* Math.abs(int32) % 1500, from the bit pattern: 2^16 % 1500 = 1036 and
\* 2^32 % 1500 = 796; a pattern with the top bit set is negative
AbsMod1500(h) ==
  LET u == ((h[1] % 1500) * 1036 + h[2]) % 1500
  IN  IF h[1] >= 2 ^ 15 THEN (796 + 1500 - u) % 1500 ELSE u

----------------------------------------------------------------------------
(* basic calculator: src/freight_calculator.js:1-282 *)

\* SOURCE_WEIGHTS, in tenths; sources in the order they are queried
BasicSources == <<"SCFI", "Freightos FBX", "Drewry WCI">>

SOURCE_WEIGHTS ==
  [s \in {"SCFI", "Freightos FBX", "Drewry WCI"} |-> 12]

\* container types as the callers pass them: an object with a code
ContainerCodes == {"20DV", "40HC"}

standardWeights ==
  [c \in {"20DV", "40DV", "40HC", "45HC"} |->
     CASE c = "20DV" -> 20000
       [] c = "40DV" -> 25000
       [] c = "40HC" -> 25000
       [] c = "45HC" -> 27000]

\* standardWeights[containerType] || 20000: the table is keyed by code, so an
\* object argument (isObject) misses every key
StandardWeightFor(containerType) ==
  IF ~containerType.isObject /\ containerType.code \in DOMAIN standardWeights
    THEN standardWeights[containerType.code]
    ELSE 20000

adjustRateByWeight(baseRate, weight, containerType) ==
  LET standardWeight == StandardWeightFor(containerType)
  IN  IF weight < 1000 THEN baseRate
      ELSE IF weight < standardWeight
        \* adjustmentFactor = 0.9 + 0.1 * weight / standardWeight
        THEN RoundDiv(baseRate * (9 * standardWeight + weight), 10 * standardWeight)
      ELSE IF weight > standardWeight
        \* adjustmentFactor = 1.0 + 0.3 * min(1, excess / standardWeight)
        THEN RoundDiv(baseRate * (10 * standardWeight
                                  + 3 * Min(standardWeight, weight - standardWeight)),
                      10 * standardWeight)
      ELSE baseRate

\* calculateStandardDeviation(values) is sqrt(VarN / VarD) for two or more
\* values, VarN = n * sum(v^2) - (sum v)^2 and VarD = n * (n - 1); else 0
VarN(values) == Len(values) * SumSq(values) - SumSeq(values) * SumSeq(values)

\* the population variance: n in place of n - 1
VarDPopulation(values) == Len(values) * Len(values)

VarD(values) == Len(values) * (Len(values) - 1)

\* least m in lo..hi with m >= sd - 1/2, i.e. (2m + 1)^2 * VarD >= 4 * VarN
RECURSIVE LeastHalf(_, _, _, _)
LeastHalf(n, d, lo, hi) ==
  IF lo >= hi THEN lo
  ELSE LET mid == (lo + hi) \div 2
       IN  IF LeqMul(4, n, (2 * mid + 1) * (2 * mid + 1), d)
             THEN LeastHalf(n, d, lo, mid)
             ELSE LeastHalf(n, d, mid + 1, hi)

\* min(ceil(sd - 1/2), cap): Math.round(base - sd) = base - ceil(sd - 1/2)
SdCeil(values, cap) ==
  IF Len(values) <= 1 THEN 0 ELSE LeastHalf(VarN(values), VarD(values), 0, cap)

\* min(floor(sd + 1/2), cap): one more than SdCeil exactly when sd - 1/2 is whole
SdFloor(values, cap) ==
  LET m == SdCeil(values, cap)
  IN  IF /\ Len(values) > 1
         /\ m < cap
         /\ LeqMul((2 * m + 1) * (2 * m + 1), VarD(values), 4, VarN(values))
        THEN m + 1 ELSE m

\* lines 85-94: Math.round(weightedSum / totalWeight), weights in tenths
\* readings above one and a half times the lowest one left out of the sum
WeightedSumTrimmed(data) ==
  SumSeq([i \in 1..Len(data) |->
            IF 2 * data[i].rate > 3 * MinSeq([j \in 1..Len(data) |-> data[j].rate])
              THEN 0 ELSE data[i].rate * data[i].weight])

WeightedSum(data) == SumSeq([i \in 1..Len(data) |-> data[i].rate * data[i].weight])

TotalWeight(data) == SumSeq([i \in 1..Len(data) |-> data[i].weight])

WeightedBaseRate(data) == RoundDiv(WeightedSum(data), TotalWeight(data))

Rates(data) == [i \in 1..Len(data) |-> data[i].rate]

\* lines 101-105: the band around baseRate, before the weight adjustment
BandMin(baseRate, rates) ==
  Max(baseRate - SdCeil(rates, baseRate + 1), RoundDiv(8 * baseRate, 10))

BandMax(baseRate, rates) ==
  Min(baseRate + SdFloor(rates, baseRate + 1), RoundDiv(12 * baseRate, 10))

\* lines 109-117, in hundredths: Math.round((0.7 + 0.3 * sourceRatio *
\* (1 - min(cv, 0.5) / 0.5)) * 100), sourceRatio = n / maxSources and
\* cv = sd / baseRate.  The rounded value is at least k (k > 70) iff
\* cv <= (60n - (2k - 141) maxSources) / (120n), i.e.
\*   (120n)^2 VarN <= VarD (baseRate (60n - (2k - 141) maxSources))^2
ReliabilityAtLeast(k, baseRate, rates, maxSources) ==
  LET n == Len(rates)
      t == baseRate * (60 * n - (2 * k - 141) * maxSources)
  IN  \/ k <= 70
      \/ /\ t >= 0
         /\ 60 * n - (2 * k - 141) * maxSources >= 0
         /\ \/ baseRate <= 0
            \/ n <= 1
            \/ LeqMul(14400 * n * n, VarN(rates), VarD(rates) * t, t)

ReliabilityHundredths(baseRate, rates, maxSources) ==
  CHOOSE k \in 70..400 :
    /\ ReliabilityAtLeast(k, baseRate, rates, maxSources)
    /\ ~ReliabilityAtLeast(k + 1, baseRate, rates, maxSources)

maxPossibleSources == 3

\* the source count taken for the source ratio
BasicReliabilityUnscaled(baseRate, rates) ==
  ReliabilityHundredths(baseRate, rates, 1)

\* a x0.8 penalty on a single-source quote
BasicReliabilityPenalised(baseRate, rates) ==
  IF Len(rates) = 1
    THEN RoundDiv(8 * ReliabilityHundredths(baseRate, rates, maxPossibleSources), 10)
    ELSE ReliabilityHundredths(baseRate, rates, maxPossibleSources)

\* the source ratio left at 1 whatever the number of sources
BasicReliabilityFullRatio(baseRate, rates) ==
  ReliabilityHundredths(baseRate, rates, Len(rates))

BasicReliability(baseRate, rates) ==
  ReliabilityHundredths(baseRate, rates, maxPossibleSources)

\* the fields of a returned object are listed in fields; one it lacks is 0, and
\* rate also stands for finalRate
\* the hash of both port names, lines 190-208
RouteHash(origin, destination) ==
  AbsMod1500(HashChars(HashChars(<<0, 0>>, origin.name), destination.name))

Route(origin, destination) == <<origin.label, destination.label>>

NoResult ==
  [kind |-> "none", path |-> "none", route |-> <<"", "">>, rate |-> 0, baseRate |-> 0,
   fields |-> {}, minRate |-> 0, maxRate |-> 0, den |-> 1,
   relNum |-> 0, relDen |-> 1, sourceCount |-> 0, sources |-> {}, base |-> 0,
   seasonalityFactor |-> 100, fuelSurcharge |-> 0]

ThrownResult == [NoResult EXCEPT !.kind = "thrown"]

\* an endpoint's 400 answer and its 500 answer
Rejected == [NoResult EXCEPT !.kind = "rejected"]

Failed == [NoResult EXCEPT !.kind = "error"]

\* calculateBaseRate, lines 187-244: the quote when no source answered
calculateBaseRate(origin, destination, containerType, weight) ==
  LET baseRate == 1500 + RouteHash(origin, destination)
      weightAdjustedRate == adjustRateByWeight(baseRate, weight, containerType)
  IN  [kind |-> "result", path |-> "fallback", route |-> Route(origin, destination),
       rate |-> weightAdjustedRate, baseRate |-> baseRate,
       fields |-> {"baseRate", "rate", "minRate", "maxRate", "reliability",
                   "sourceCount", "sources", "finalRate"},
       minRate |-> RoundDiv(8 * weightAdjustedRate, 10),
       maxRate |-> RoundDiv(12 * weightAdjustedRate, 10), den |-> 1,
       relNum |-> 70, relDen |-> 100, sourceCount |-> 1,
       sources |-> {"Base calculation"}, base |-> baseRate,
       seasonalityFactor |-> 100, fuelSurcharge |-> 0]

\* lines 44-71: a source is kept when its adapter returned a truthy current_index
BasicSourcesData(market) ==
  LET kept == {i \in 1..Len(BasicSources) : market[i] > 0}
      Pick(S) == CHOOSE i \in S : \A j \in S : i <= j
      RECURSIVE Build(_)
      Build(S) ==
        IF S = {} THEN <<>>
        ELSE <<[source |-> BasicSources[Pick(S)], rate |-> market[Pick(S)],
                weight |-> SOURCE_WEIGHTS[BasicSources[Pick(S)]]]>>
             \o Build(S \ {Pick(S)})
  IN  Build(kept)

\* lines 85-131: the quote from one or more readings; the result object has
\* rate, minRate and maxRate and no baseRate field (base is the local baseRate)
BasicQuote(data, origin, destination, containerType, weight) ==
  LET baseRate == WeightedBaseRate(data)
      rates == Rates(data)
      minRate == BandMin(baseRate, rates)
      maxRate == BandMax(baseRate, rates)
      weightAdjustedRate == adjustRateByWeight(baseRate, weight, containerType)
  IN  [kind |-> "result", path |-> "sources", route |-> Route(origin, destination),
       rate |-> weightAdjustedRate, baseRate |-> 0,
       fields |-> {"rate", "minRate", "maxRate", "reliability", "sourceCount",
                   "sources", "finalRate"},
       minRate |-> RoundDiv(minRate * weightAdjustedRate, baseRate),
       maxRate |-> RoundDiv(maxRate * weightAdjustedRate, baseRate), den |-> 1,
       relNum |-> BasicReliability(baseRate, rates), relDen |-> 100,
       sourceCount |-> Len(data),
       sources |-> {data[i].source : i \in 1..Len(data)}, base |-> baseRate,
       seasonalityFactor |-> 100, fuelSurcharge |-> 0]

\* calculateFreightRate, lines 34-141: the three adapters are awaited inside
\* one try; any throw lands in the catch, which answers with calculateBaseRate
calculateFreightRate(market, origin, destination, containerType, weight) ==
  IF \E i \in 1..Len(BasicSources) : market[i] = Thrown
    THEN calculateBaseRate(origin, destination, containerType, weight)
  ELSE IF BasicSourcesData(market) = <<>>
    THEN calculateBaseRate(origin, destination, containerType, weight)
  ELSE BasicQuote(BasicSourcesData(market), origin, destination, containerType, weight)

----------------------------------------------------------------------------
(* enhanced calculator: src/freight_calculator.js:284-787 *)

\* sources in the order collectDataFromAllSources awaits them, lines 425-523
EnhancedSources ==
  <<"SCFI", "Freightos FBX", "Drewry WCI", "BDI", "CCFI", "Harpex", "Xeneta XSI",
    "New ConTex", "ISTFIX", "CTS">>

\* SOURCE_WEIGHTS of lines 315-326, in tenths
EnhancedWeights ==
  [s \in {EnhancedSources[i] : i \in 1..Len(EnhancedSources)} |->
     CASE s \in {"SCFI", "CCFI", "Freightos FBX", "Drewry WCI"} -> 12
       [] s = "BDI" -> 8
       [] s \in {"Harpex", "ISTFIX"} -> 9
       [] s = "Xeneta XSI" -> 11
       [] s \in {"New ConTex", "CTS"} -> 10]

\* in tenths
NORMALIZATION_FACTORS ==
  [s \in {EnhancedSources[i] : i \in 1..Len(EnhancedSources)} |->
     CASE s \in {"SCFI", "CCFI"} -> 5
       [] s \in {"Freightos FBX", "Drewry WCI"} -> 10
       [] s = "BDI" -> 3
       [] s \in {"Harpex", "ISTFIX"} -> 7
       [] s = "Xeneta XSI" -> 6
       [] s = "New ConTex" -> 8
       [] s = "CTS" -> 9]

\* in hundredths
BASE_SEASONALITY_FACTORS ==
  [m \in 1..12 |->
     CASE m \in {1, 3, 12} -> 95
       [] m = 2 -> 90
       [] m \in {4, 11} -> 100
       [] m \in {5, 10} -> 105
       [] m \in {6, 9} -> 110
       [] m \in {7, 8} -> 115]

\* collectDataFromAllSources, lines 421-530: one try around all ten awaits;
\* a throw ends the collection and what was gathered before it is returned
collectDataFromAllSources(market) ==
  LET n == Len(EnhancedSources)
      stop == IF \E i \in 1..n : market[i] = Thrown
                THEN CHOOSE i \in 1..n :
                       market[i] = Thrown /\ \A j \in 1..(i - 1) : market[j] # Thrown
                ELSE n + 1
      RECURSIVE Build(_)
      Build(i) ==
        IF i >= stop THEN <<>>
        ELSE (IF market[i] # NoReading
                THEN <<[source |-> EnhancedSources[i], rate |-> market[i],
                        weight |-> EnhancedWeights[EnhancedSources[i]],
                        normalizationFactor |-> NORMALIZATION_FACTORS[EnhancedSources[i]]]>>
                ELSE <<>>)
             \o Build(i + 1)
  IN  Build(1)

\* rate * normalizationFactor, in tenths
NormalizedRates(data) == [i \in 1..Len(data) |-> data[i].rate * data[i].normalizationFactor]

\* calculateWeightedRate, lines 533-575, for one or more positive readings.
\* With WS = sum(rate nf10 w10) and TW = sum(w10): weightedRate = WS / (10 TW),
\* minRate = minN / 10, maxRate = maxN / 10, rangeRatio = (maxN - minN) TW / WS and
\* reliability = min(1, (count / 10) (1 - min(1, rangeRatio / 2)))
calculateWeightedRate(data) ==
  LET ws == SumSeq([i \in 1..Len(data) |->
                      data[i].rate * data[i].normalizationFactor * data[i].weight])
      tw == TotalWeight(data)
      minN == MinSeq(NormalizedRates(data))
      maxN == MaxSeq(NormalizedRates(data))
      num == Len(data) * (2 * ws - Min(2 * ws, (maxN - minN) * tw))
  IN  [ws |-> ws, tw |-> tw, minN |-> minN, maxN |-> maxN,
       relNum |-> IF num > 20 * ws THEN 1 ELSE num,
       relDen |-> IF num > 20 * ws THEN 1 ELSE 20 * ws]

\* getSeasonalityFactor, lines 578-603, in hundredths: the stored row's factor,
\* else the base factor of the month, else 1.0 when the query fails
getSeasonalityFactor(season) ==
  CASE season.kind = "row" -> season.factor
    [] season.kind = "none" -> BASE_SEASONALITY_FACTORS[season.month]
    [] season.kind = "error" -> 100

\* adjustedFactor of getSeasonalityFactor of src/seasonality_analyzer.js,
\* lines 647-654: 1.0 + (factor - 1.0) * confidence, in ten-thousandths for a
\* factor and a confidence in hundredths
adjustedFactor(factor, confidence) == 10000 + (factor - 100) * confidence

\* container factor of lines 642-644 and 687-689, in tenths
containerFactor(containerType) ==
  CASE containerType = "40HC" -> 12
    [] containerType = "40DC" -> 10
    [] containerType = "20DC" -> 6
    [] OTHER -> 10

\* calculateFuelSurcharge, lines 606-659: Math.round(max(0, price - 400) *
\* containerFactor * (distance / 1000) * 0.15), and a fixed amount per
\* container type when a query fails
calculateFuelSurcharge(fuel, containerType) ==
  IF fuel.kind = "error"
    THEN CASE containerType = "40HC" -> 300
           [] containerType = "40DC" -> 250
           [] containerType = "20DC" -> 150
           [] OTHER -> 250
    ELSE RoundDiv(Max(0, fuel.price - 400) * containerFactor(containerType)
                  * fuel.distance * 15, 1000000)

RECURSIVE GCD(_, _)
GCD(a, b) == IF b = 0 THEN a ELSE GCD(b, a % b)

\* standard weight of lines 695-697
finalStandardWeight(containerType) ==
  CASE containerType = "20DC" -> 24000
    [] OTHER -> 30000

\* calculateFinalRate, lines 685-710, on seasonalRate = ws f / (1000 tw):
\* Math.round(seasonalRate * containerFactor * overweightFactor + fuelSurcharge),
\* overweightFactor = 1 + (overweight / standardWeight) * 0.5 above the standard
\* weight.  The quotient is split so that no product leaves 32 bits.
calculateFinalRate(ws, tw, f, containerType, weight, fuelSurcharge) ==
  LET std == finalStandardWeight(containerType)
      over == IF weight > std THEN weight - std ELSE 0
      g == GCD(2 * std + over, 2 * std)
      k == f * containerFactor(containerType) * ((2 * std + over) \div g)
      l == 1000 * ((2 * std) \div g)
      m == 10 * tw
      q == ws \div m
      r == ws % m
      a == q * k
  IN  fuelSurcharge + (a \div l) + RoundDiv((a % l) * m + r * k, m * l)

\* the object returned by calculateFreightRate, lines 398-413; baseRate,
\* minRate and maxRate are numerators over den = 1000 tw; rate is finalRate
EnhancedResult(origin, destination, data, wr, f, fuelSurcharge, finalRate) ==
  [kind |-> "result", path |-> "sources", route |-> Route(origin, destination),
   rate |-> finalRate, baseRate |-> 100 * wr.ws,
   fields |-> {"baseRate", "seasonalityFactor", "fuelSurcharge", "finalRate",
               "minRate", "maxRate", "reliability"},
   minRate |-> wr.minN * f * wr.tw, maxRate |-> wr.maxN * f * wr.tw,
   den |-> 1000 * wr.tw, relNum |-> wr.relNum, relDen |-> wr.relDen,
   sourceCount |-> Len(data), sources |-> {data[i].source : i \in 1..Len(data)},
   base |-> 100 * wr.ws, seasonalityFactor |-> f, fuelSurcharge |-> fuelSurcharge]

----------------------------------------------------------------------------
(* indexed calculator: src/unnamed/part_001 *)

\* calculateBaseRate of part_001, lines 25-60: each name is hashed on its own
calculateBaseRateIndexed(origin, destination) ==
  1500 + ((AbsMod1500(HashChars(<<0, 0>>, origin.name))
           + AbsMod1500(HashChars(<<0, 0>>, destination.name))) % 1500)

\* sources in the order they are awaited, with the index level each value is
\* divided by (lines 152, 174, 196)
IndexedSources == <<"SCFI", "FBX", "WCI">>

IndexScale == [s \in {"SCFI", "FBX", "WCI"} |->
                 CASE s = "SCFI" -> 2000
                   [] s = "FBX" -> 5000
                   [] s = "WCI" -> 4000]

\* collectDataFromAllSources of part_001, lines 142-218: every adapter has a try
\* of its own; a source is kept when it returned a truthy value
collectDataFromAllSourcesIndexed(market) ==
  LET RECURSIVE Build(_)
      Build(i) ==
        IF i > Len(IndexedSources) THEN <<>>
        ELSE (IF market[i] > 0
                THEN <<[source |-> IndexedSources[i], value |-> market[i],
                        scale |-> IndexScale[IndexedSources[i]]]>>
                ELSE <<>>)
             \o Build(i + 1)
  IN  Build(1)

\* getContainerTypeMultiplier, lines 221-237, in tenths
getContainerTypeMultiplier(containerTypeCode) ==
  CASE containerTypeCode = "20DC" -> 10
    [] containerTypeCode = "40DC" -> 18
    [] containerTypeCode = "40HC" -> 20
    [] containerTypeCode \in {"20RF", "40OT"} -> 22
    [] containerTypeCode = "40RF" -> 30
    [] containerTypeCode = "20OT" -> 15
    [] containerTypeCode = "20FR" -> 17
    [] containerTypeCode = "40FR" -> 25
    [] OTHER -> 10

\* calculateVolumeDiscount, lines 240-255, in hundredths
calculateVolumeDiscount(containerCount) ==
  IF containerCount >= 100 THEN 25
  ELSE IF containerCount >= 50 THEN 20
  ELSE IF containerCount >= 20 THEN 15
  ELSE IF containerCount >= 10 THEN 10
  ELSE IF containerCount >= 5 THEN 5
  ELSE 0

\* calculateFreightRate of part_001, lines 63-139, after the collection.  The
\* adjustment of a source is base (value / scale - 0.5) = base coef / 20000 with
\* coef = value (20000 / scale) - 10000; with n sources
\*   totalRate = base ((10 mult - disc) 200 n + sum coef) / (20000 n)
\* and without any, totalRate = base (10 mult - disc + 5) / 100
IndexedQuote(origin, destination, containerType, containerCount, data) ==
  LET baseRate == calculateBaseRateIndexed(origin, destination)
      mult == getContainerTypeMultiplier(containerType)
      disc == calculateVolumeDiscount(containerCount)
      n == Len(data)
      coef == SumSeq([i \in 1..n |->
                        data[i].value * (20000 \div data[i].scale) - 10000])
      totalRate == IF n > 0
                     THEN RoundDiv(baseRate * ((10 * mult - disc) * 200 * n + coef),
                                   20000 * n)
                     ELSE RoundDiv(baseRate * (10 * mult - disc + 5), 100)
  IN  [kind |-> "result", path |-> IF n > 0 THEN "sources" ELSE "standard",
       route |-> Route(origin, destination), rate |-> totalRate,
       baseRate |-> totalRate, fields |-> {"baseRate", "details"},
       minRate |-> 0, maxRate |-> 0, den |-> 1, relNum |-> 0, relDen |-> 1,
       sourceCount |-> n, sources |-> {data[i].source : i \in 1..n},
       base |-> baseRate, seasonalityFactor |-> 100, fuelSurcharge |-> 0]

----------------------------------------------------------------------------
(* mock calculator: src/server_updated.js *)

\* Math.round(a k / (m l)) for a, k >= 0 and m, l > 0, the quotient split so
\* that no product leaves 32 bits
RoundFrac(a, k, m, l) ==
  LET x == (a \div m) * k
  IN  (x \div l) + RoundDiv((x % l) * m + (a % m) * k, m * l)

\* SOURCE_WEIGHTS, lines 33-43, in tenths; a name without an entry weighs 0.5
MockSourceWeight(name) ==
  CASE name \in {"Xeneta XSI", "S&P Global Platts", "Drewry WCI", "Freightos FBX"} -> 12
    [] name \in {"World Container Index", "Container Trades Statistics", "Alphaliner"} -> 10
    [] name \in {"SCFI", "Container xChange"} -> 8
    [] OTHER -> 5

MockSourceNames ==
  <<"Xeneta XSI", "S&P Global Platts", "Drewry WCI", "Freightos FBX",
    "World Container Index", "Container Trades Statistics", "Alphaliner">>

MockSourceReliability == <<95, 92, 90, 88, 85, 82, 80>>

\* one row of DATA_SOURCES: the sources of MockSourceNames in order, with the
\* reliabilities of MockSourceReliability (hundredths) and the given rates
MockSources(rates) ==
  [i \in 1..Len(rates) |->
     [name |-> MockSourceNames[i], rate |-> rates[i],
      reliability |-> MockSourceReliability[i]]]

\* DATA_SOURCES, lines 46-83, keyed by <<origin, destination>>
DATA_SOURCES(routeKey) ==
  CASE routeKey = <<"Shanghai", "Rotterdam">> ->
         MockSources(<<1650, 1720, 1580, 1690, 1620, 1550, 1700>>)
    [] routeKey = <<"Shanghai", "Los Angeles">> ->
         MockSources(<<2250, 2320, 2180, 2290, 2220, 2150, 2300>>)
    [] routeKey = <<"Rotterdam", "New York">> ->
         MockSources(<<1850, 1920, 1780, 1890, 1820, 1750, 1900>>)
    [] OTHER -> MockSources(<<1500, 1570, 1430, 1540, 1470>>)

\* CONTAINER_FACTORS, lines 86-90, in tenths
CONTAINER_FACTORS(containerType) ==
  CASE containerType = "20DV" -> 10
    [] containerType = "40DV" -> 18
    [] containerType = "40HQ" -> 20
    [] OTHER -> 10

\* DISTANCE_FACTORS, lines 93-99, in hundredths
DISTANCE_FACTORS(routeKey) ==
  CASE routeKey = <<"Shanghai", "Rotterdam">> -> 100
    [] routeKey = <<"Shanghai", "Los Angeles">> -> 85
    [] routeKey = <<"Rotterdam", "New York">> -> 90
    [] routeKey = <<"Shanghai", "Singapore">> -> 60
    [] routeKey = <<"Rotterdam", "Hamburg">> -> 30
    [] OTHER -> 100

\* SEASONAL_FACTORS, lines 101-114, in hundredths
SEASONAL_FACTORS ==
  [m \in 1..12 |->
     CASE m \in {1, 11, 12} -> 115
       [] m \in {2, 3} -> 90
       [] m \in {4, 5} -> 100
       [] m \in {6, 10} -> 105
       [] m \in {7, 8, 9} -> 110]

\* containerFactor * distanceFactor * seasonalFactor * marketTrendFactor as the
\* reduced fraction <<p, q>>; the product of the four is F / 10^7
MockFactor(routeKey, containerType, month) ==
  LET F == CONTAINER_FACTORS(containerType) * DISTANCE_FACTORS(routeKey)
           * SEASONAL_FACTORS[month] * 95
      g == GCD(F, 10000000)
  IN  <<F \div g, 10000000 \div g>>

\* weightedAvgRate of lines 213-226 is MockWeightedSum f / MockTotalWeight for
\* the factor f of MockFactor
MockWeightedSum(sources) ==
  SumSeq([i \in 1..Len(sources) |-> sources[i].rate * MockSourceWeight(sources[i].name)])

MockTotalWeight(sources) ==
  SumSeq([i \in 1..Len(sources) |-> MockSourceWeight(sources[i].name)])

MockRates(sources) == [i \in 1..Len(sources) |-> sources[i].rate]

\* lines 233-254 followed by parseFloat(reliability.toFixed(2)), in hundredths.
\* cv is that of the raw rates (one positive factor scales them all):
\* cv = sqrt(V) / S, V = n sum(v^2) - S^2, S = sum v.  With R the sum of the
\* sources' reliabilities (hundredths) the rounded value is at least k iff
\*   1400 n min(cv, 1) <= T,  T = 1400 n - (2k - 1) 10 n + 6 R
MockAtLeast(k, sources) ==
  LET n == Len(sources)
      v == MockRates(sources)
      S == SumSeq(v)
      V == n * SumSq(v) - S * S
      R == SumSeq([i \in 1..n |-> sources[i].reliability])
      T == 1400 * n - (2 * k - 1) * 10 * n + 6 * R
  IN  \/ T >= 1400 * n
      \/ T >= 0 /\ LeqMul(1400 * n * 1400 * n, V, T * S, T * S)

MockReliability(sources) ==
  IF Len(sources) > 1
    THEN CHOOSE k \in 0..100 : MockAtLeast(k, sources) /\ ~MockAtLeast(k + 1, sources)
  ELSE IF Len(sources) = 1 THEN RoundDiv(8 * sources[1].reliability, 10)
  ELSE 0

\* lines 222-226 and 257: Math.round(weightedAvgRate / 10) * 10 under factor f
MockRoundedAvgRate(sources, f) ==
  10 * RoundFrac(MockWeightedSum(sources), f[1], MockTotalWeight(sources), 10 * f[2])

\* the try branch of calculateFreightRate of server_updated.js, lines 194-274:
\* Math.round(x / 10) * 10 of the weighted average, the least and the greatest
\* adjusted rate, then the clamp of lines 261-263
MockQuote(origin, destination, containerType, month) ==
  LET routeKey == <<origin, destination>>
      sources == DATA_SOURCES(routeKey)
      f == MockFactor(routeKey, containerType, month)
      roundedAvgRate == MockRoundedAvgRate(sources, f)
      roundedMinRate == 10 * RoundFrac(MinSeq(MockRates(sources)), f[1], 1, 10 * f[2])
      roundedMaxRate == 10 * RoundFrac(MaxSeq(MockRates(sources)), f[1], 1, 10 * f[2])
  IN  [kind |-> "result", path |-> "sources", route |-> routeKey,
       rate |-> roundedAvgRate, baseRate |-> 0,
       fields |-> {"rate", "min_rate", "max_rate", "currency", "sources",
                   "reliability", "source_count"},
       minRate |-> Min(roundedMinRate, roundedAvgRate),
       maxRate |-> Max(roundedMaxRate, roundedAvgRate), den |-> 1,
       relNum |-> MockReliability(sources), relDen |-> 100,
       sourceCount |-> Len(sources),
       sources |-> {sources[i].name : i \in 1..Len(sources)},
       base |-> roundedAvgRate, seasonalityFactor |-> SEASONAL_FACTORS[month],
       fuelSurcharge |-> 0]

\* a container type of the request body that has no primitive value, such as
\* {"toString": 1}: using it as a property key throws a TypeError
Unconvertible == "{toString: 1}"

\* calculateFallbackRate, lines 284-338, with rnd the value of Math.random() in
\* hundredths.  baseRate = 1500 df cf sf = a / 1000 and fluctuation =
\* 1 + (rnd * 0.16 - 0.08) = (575 + rnd) / 625.  CONTAINER_FACTORS[containerType]
\* throws on an unconvertible type and the catch answers with fixed values
calculateFallbackRate(origin, destination, containerType, month, rnd) ==
  LET routeKey == <<origin, destination>>
      a == 15 * DISTANCE_FACTORS(routeKey) * CONTAINER_FACTORS(containerType)
           * SEASONAL_FACTORS[month]
      roundedBaseRate == 10 * RoundFrac(a, 575 + rnd, 1000, 6250)
      fields == {"rate", "min_rate", "max_rate", "currency", "sources",
                 "reliability", "source_count"}
  IN  IF containerType = Unconvertible
        THEN [kind |-> "result", path |-> "emergency", route |-> routeKey,
              rate |-> 1500, baseRate |-> 0, fields |-> fields,
              minRate |-> 1200, maxRate |-> 1800, den |-> 1,
              relNum |-> 30, relDen |-> 100, sourceCount |-> 0,
              sources |-> {"Emergency Fallback"}, base |-> 1500,
              seasonalityFactor |-> 100, fuelSurcharge |-> 0]
        ELSE [kind |-> "result", path |-> "fallback", route |-> routeKey,
              rate |-> roundedBaseRate, baseRate |-> 0, fields |-> fields,
              minRate |-> 10 * RoundFrac(a, (575 + rnd) * 17, 1000, 125000),
              maxRate |-> 10 * RoundFrac(a, (575 + rnd) * 23, 1000, 125000), den |-> 1,
              relNum |-> 50, relDen |-> 100, sourceCount |-> 0,
              sources |-> {"Fallback Calculation"}, base |-> roundedBaseRate,
              seasonalityFactor |-> SEASONAL_FACTORS[month], fuelSurcharge |-> 0]

\* calculateFreightRate of server_updated.js, lines 192-281: the try branch is
\* MockQuote; a TypeError from CONTAINER_FACTORS[containerType] lands in the
\* catch, which answers with calculateFallbackRate
calculateFreightRateMock(origin, destination, containerType, month, rnd) ==
  IF containerType = Unconvertible
    THEN calculateFallbackRate(origin, destination, containerType, month, rnd)
    ELSE MockQuote(origin, destination, containerType, month)

----------------------------------------------------------------------------
(* simple calculator: POST /api/calculate of src/server.js, lines 1196-1243 *)

\* lines 1215-1219 and 1230-1236, with r1, r2, r3 the three values of
\* Math.random() in hundredths
SimpleQuote(origin, destination, r1, r2, r3) ==
  LET baseRate == RoundDiv(r1 * 2000 + 100000, 100)
  IN  [kind |-> "result", path |-> "simple", route |-> <<origin, destination>>,
       rate |-> baseRate, baseRate |-> 0,
       fields |-> {"rate", "minRate", "maxRate", "reliability", "sourceCount"},
       minRate |-> RoundDiv(8 * baseRate, 10), maxRate |-> RoundDiv(12 * baseRate, 10),
       den |-> 1, relNum |-> RoundDiv(r2 * 30 + 7000, 100), relDen |-> 100,
       sourceCount |-> ((r3 * 5) \div 100) + 3, sources |-> {}, base |-> baseRate,
       seasonalityFactor |-> 100, fuelSurcharge |-> 0]

----------------------------------------------------------------------------
(* seasonality analyzer: src/seasonality_analyzer.js.  The file holds two
   modules: A, lines 1-775, whose store is keyed by ports, and B, lines
   776-1438, whose store is keyed by regions *)

Modules == {"A", "B"}

\* ports table as src/server.js:1153-1160 fills it, cut to three ports
AnalyzerPorts == {"CNSHA", "SGSIN", "NLRTM"}

PortRegion == [p \in AnalyzerPorts |-> IF p = "NLRTM" THEN "Europe" ELSE "Asia"]

\* SELECT DISTINCT region FROM ports, as a sequence
Regions == <<"Asia", "Europe">>

Date(y, m, d) == [year |-> y, month |-> m, day |-> d]

\* new Date() of the runs
Today == Date(2025, 6, 15)

\* a fraction n / d in lowest terms
Ratio(n, d) == <<n \div GCD(n, d), d \div GCD(n, d)>>

\* sum of f over the set S
RECURSIVE SumFn(_, _)
SumFn(f, S) ==
  IF S = {} THEN 0
  ELSE LET x == CHOOSE y \in S : TRUE IN f[x] + SumFn(f, S \ {x})

LCM(a, b) == (a \div GCD(a, b)) * b

RECURSIVE LCMSet(_)
LCMSet(S) ==
  IF S = {} THEN 1
  ELSE LET x == CHOOSE y \in S : TRUE IN LCM(x, LCMSet(S \ {x}))

\* historical_rates: UNIQUE(origin_port, destination_port, container_type, date,
\* source) in A (lines 32-45), UNIQUE(origin_region, destination_region,
\* container_type, rate_date, source) in B (lines 881-893); origin and
\* destination hold the ports in A and the regions in B
Key(row) == <<row.origin, row.destination, row.container_type, row.date, row.source>>

Conflicts(store, row) == \E i \in 1..Len(store) : Key(store[i]) = Key(row)

\* one INSERT INTO historical_rates under the UNIQUE constraint: clause is
\* "nothing" for ON CONFLICT DO NOTHING, "update" for ON CONFLICT DO UPDATE SET
\* rate, origin_region, destination_region, and "none" for no clause, where a
\* duplicate key raises unique_violation
Insert(store, row, clause) ==
  IF ~Conflicts(store, row)
    THEN [rows |-> Append(store, row), conflict |-> FALSE, raised |-> FALSE]
  ELSE IF clause = "nothing"
    THEN [rows |-> store, conflict |-> TRUE, raised |-> FALSE]
  ELSE IF clause = "update"
    THEN [rows |-> [i \in 1..Len(store) |->
                      IF Key(store[i]) = Key(row)
                        THEN [store[i] EXCEPT !.rate = row.rate,
                                              !.origin_region = row.origin_region,
                                              !.destination_region = row.destination_region]
                        ELSE store[i]],
          conflict |-> TRUE, raised |-> FALSE]
  ELSE [rows |-> store, conflict |-> TRUE, raised |-> TRUE]

\* the INSERT without a conflict clause
InsertHistoricalRatePlain(store, row) == Insert(store, row, "none")

\* the INSERT of lines 383-401 (A, synthetic), 951-968 (B, from
\* calculation_history), 1038-1054 (B, from the index tables) and 1193-1207
\* (B, synthetic)
InsertHistoricalRate(store, row) == Insert(store, row, "nothing")

\* the INSERT of lines 217-236 (A, from calculation_history)
UpsertHistoricalRate(store, row) == Insert(store, row, "update")

NoAudit == [op |-> "none", writes |-> 0, conflicts |-> 0, raised |-> FALSE]

\* a batch of INSERTs inside one transaction: the rows after it, how many
\* writes met an existing key, and whether one raised (the batch stops there)
RECURSIVE InsertAll(_, _, _)
InsertAll(acc, rows, upsert) ==
  IF rows = <<>> \/ acc.raised THEN acc
  ELSE LET r == IF upsert THEN UpsertHistoricalRate(acc.rows, Head(rows))
                          ELSE InsertHistoricalRate(acc.rows, Head(rows))
       IN  InsertAll([rows |-> r.rows,
                      conflicts |-> acc.conflicts + (IF r.conflict THEN 1 ELSE 0),
                      raised |-> r.raised],
                     Tail(rows), upsert)

Batch(store, rows, upsert) ==
  InsertAll([rows |-> store, conflicts |-> 0, raised |-> FALSE], rows, upsert)

\* getSeasonalFactorForMonth, lines 424-442, and BASE_SEASONALITY_FACTORS of
\* B, lines 785-798, hold the values of BASE_SEASONALITY_FACTORS above
getSeasonalFactorForMonth(month) == BASE_SEASONALITY_FACTORS[month]

\* years of synthetic observations generated (3 in A, line 322; 5 in B, line 1416)
SyntheticYears == 1

\* values of 0.9 + Math.random() * 0.2, in hundredths; one draw stands for
\* all the rows of a run
RandomFactors == {90, 105}

SyntheticContainersA == <<"20DV", "40DV", "40HC">>

\* popularRoutes of A, lines 273-316: the first five Asian ports to the first
\* five European ports (no North American port is in the table)
PopularRoutes == <<<<"CNSHA", "NLRTM">>, <<"SGSIN", "NLRTM">>>>

\* the k-th monthly date from startDate = Today less SyntheticYears years,
\* lines 321-324 and 364
MonthlyDate(k) ==
  Date(Today.year - SyntheticYears + ((Today.month - 1 + k) \div 12),
       ((Today.month - 1 + k) % 12) + 1, Today.day)

\* generateSyntheticHistoricalData of A, lines 260-421, for a base rate
\* 1000 + Math.random() * 2000 and a random factor: one row per route,
\* container type and month from startDate to Today, with rate
\* Math.round(baseRate * seasonalFactor * trendFactor * randomFactor) and
\* trendFactor = 1 + 0.1 per year since startDate
SyntheticRowsA(baseRate, rf) ==
  LET nd == 12 * SyntheticYears + 1
      nc == Len(SyntheticContainersA)
      n == Len(PopularRoutes) * nc * nd
      Row(i) ==
        LET route == PopularRoutes[((i - 1) \div (nc * nd)) + 1]
            c == SyntheticContainersA[(((i - 1) \div nd) % nc) + 1]
            k == (i - 1) % nd
            d == MonthlyDate(k)
        IN  [origin |-> route[1], destination |-> route[2],
             origin_region |-> PortRegion[route[1]],
             destination_region |-> PortRegion[route[2]],
             container_type |-> c,
             rate |-> RoundDiv(RoundDiv(baseRate * getSeasonalFactorForMonth(d.month)
                                        * (120 + k), 120) * rf, 10000),
             date |-> d, source |-> "synthetic"]
  IN  [i \in 1..n |-> Row(i)]

SyntheticContainersB == <<"20DC", "40DC", "40HC">>

\* the ordered pairs of different regions, lines 1163-1167
RegionPairs ==
  <<<<"Asia", "Europe">>, <<"Europe", "Asia">>>>

\* baseRates, lines 1132-1143
SyntheticBaseRate(pair) ==
  CASE pair = <<"Asia", "Europe">> -> 2000
    [] pair = <<"Europe", "Asia">> -> 1000
    [] OTHER -> 1500

\* generateSyntheticHistoricalData of B, lines 1114-1227: one row per year,
\* month, region pair and container type, dated the 15th, with rate
\* Math.round(baseRate * containerFactor * seasonalFactor * randomFactor /
\* yearTrend) and yearTrend = 1 + 0.05 yearOffset
SyntheticRowsB(rf) ==
  LET np == Len(RegionPairs)
      nc == Len(SyntheticContainersB)
      n == SyntheticYears * 12 * np * nc
      Row(i) ==
        LET yearOffset == (i - 1) \div (12 * np * nc)
            month == (((i - 1) \div (np * nc)) % 12) + 1
            pair == RegionPairs[(((i - 1) \div nc) % np) + 1]
            c == SyntheticContainersB[((i - 1) % nc) + 1]
        IN  [origin |-> pair[1], destination |-> pair[2],
             origin_region |-> pair[1], destination_region |-> pair[2],
             container_type |-> c,
             rate |-> RoundDiv((SyntheticBaseRate(pair) \div 10) * containerFactor(c)
                               * BASE_SEASONALITY_FACTORS[month] * rf * 20,
                               10000 * (20 + yearOffset)),
             date |-> Date(Today.year - yearOffset, month, 15),
             source |-> "synthetic"]
  IN  [i \in 1..n |-> Row(i)]

\* rows of calculation_history as saveCalculationHistory of src/server.js,
\* lines 121-179, writes them: created_at is NOW(), here date
HistoryRow(origin, destination, containerType, rate, date) ==
  [origin |-> origin, destination |-> destination, containerType |-> containerType,
   weight |-> 0, rate |-> rate, date |-> date, sources |-> ""]

\* the rows importHistoricalDataFromCalculationHistory of A, lines 203-238,
\* writes: portRegions[port] || 'Unknown' and row.sources || 'calculation_history'
ImportedRowsA(history) ==
  [i \in 1..Len(history) |->
     [origin |-> history[i].origin, destination |-> history[i].destination,
      origin_region |-> IF history[i].origin \in DOMAIN PortRegion
                          THEN PortRegion[history[i].origin] ELSE "Unknown",
      destination_region |-> IF history[i].destination \in DOMAIN PortRegion
                               THEN PortRegion[history[i].destination] ELSE "Unknown",
      container_type |-> history[i].containerType, rate |-> history[i].rate,
      date |-> history[i].date,
      source |-> IF history[i].sources = "" THEN "calculation_history"
                                            ELSE history[i].sources]]

\* the rows importHistoricalDataFromCalculationHistory of B selects, lines
\* 933-946: the JOINs keep the rows whose two ports are in the ports table
ImportedRowsB(history) ==
  LET kept == SelectSeq(history, LAMBDA r : r.origin \in DOMAIN PortRegion
                                             /\ r.destination \in DOMAIN PortRegion)
  IN  [i \in 1..Len(kept) |->
         [origin |-> PortRegion[kept[i].origin],
          destination |-> PortRegion[kept[i].destination],
          origin_region |-> PortRegion[kept[i].origin],
          destination_region |-> PortRegion[kept[i].destination],
          container_type |-> kept[i].containerType, rate |-> kept[i].rate,
          date |-> kept[i].date, source |-> "calculation_history"]]

\* extractRegionsFromRoute, lines 1075-1111, on the routes of IndexRows:
\* "Asia to Europe" matches the first pattern, "Shanghai-Rotterdam" the second
\* (word-word), which yields the two words, and "Global" matches none (null)
extractRegionsFromRoute(route) ==
  CASE route = "Asia to Europe" -> <<"Asia", "Europe">>
    [] route = "Shanghai-Rotterdam" -> <<"Shanghai", "Rotterdam">>
    [] OTHER -> <<>>

\* rows of the index tables read by importHistoricalDataFromIndices
IndexRows ==
  <<[table |-> "freight_indices_scfi", route |-> "Asia to Europe",
     current_index |-> 2100, index_date |-> Date(2025, 6, 13)],
    [table |-> "freight_indices_fbx", route |-> "Shanghai-Rotterdam",
     current_index |-> 1700, index_date |-> Date(2025, 5, 30)],
    [table |-> "freight_indices_fbx", route |-> "Shanghai-Rotterdam",
     current_index |-> 1900, index_date |-> Date(2025, 6, 6)],
    [table |-> "freight_indices_fbx", route |-> "Shanghai-Rotterdam",
     current_index |-> 2000, index_date |-> Date(2025, 6, 13)],
    [table |-> "freight_indices_ccfi", route |-> "Shanghai-Rotterdam",
     current_index |-> 1300, index_date |-> Date(2025, 6, 13)],
    [table |-> "freight_indices_wci", route |-> "Global",
     current_index |-> 2500, index_date |-> Date(2025, 6, 12)]>>

\* the rows importHistoricalDataFromIndices writes, lines 1022-1056
IndexedRowsB(rows) ==
  LET kept == SelectSeq(rows, LAMBDA r : extractRegionsFromRoute(r.route) # <<>>)
  IN  [i \in 1..Len(kept) |->
         [origin |-> extractRegionsFromRoute(kept[i].route)[1],
          destination |-> extractRegionsFromRoute(kept[i].route)[2],
          origin_region |-> extractRegionsFromRoute(kept[i].route)[1],
          destination_region |-> extractRegionsFromRoute(kept[i].route)[2],
          container_type |-> "40DC", rate |-> kept[i].current_index,
          date |-> kept[i].index_date, source |-> kept[i].table]]

\* seasonality_factors rows are [factor, confidence]: factor a fraction in
\* lowest terms, confidence in hundredths
BaseFactorRow(month) ==
  [factor |-> Ratio(BASE_SEASONALITY_FACTORS[month], 100), confidence |-> 50]

\* initializeSeasonalityTable of B, lines 801-870: an empty table is filled
\* with the base factor of each month for every ordered pair of different
\* regions; a table with rows is left alone
initializeSeasonalityTable(table) ==
  IF DOMAIN table # {} THEN table
  ELSE [k \in {<<RegionPairs[p][1], RegionPairs[p][2], m>> :
                 p \in 1..Len(RegionPairs), m \in 1..12} |-> BaseFactorRow(k[3])]

\* Math.max(0.7, Math.min(1.3, x))
Clamp(r) ==
  IF 10 * r[1] < 7 * r[2] THEN <<7, 10>>
  ELSE IF 10 * r[1] > 13 * r[2] THEN <<13, 10>>
  ELSE r

\* SELECT DISTINCT origin_region, destination_region FROM historical_rates
PairsOf(store) ==
  {<<store[i].origin_region, store[i].destination_region>> : i \in 1..Len(store)}

RowsOfPair(store, pair) ==
  {i \in 1..Len(store) : /\ store[i].origin_region = pair[1]
                         /\ store[i].destination_region = pair[2]}

RowsOfMonth(store, pair, month) ==
  {i \in RowsOfPair(store, pair) : store[i].date.month = month}

RateAt(store) == [i \in 1..Len(store) |-> store[i].rate]

\* the factor and confidence analyzeSeasonalityFactors of B computes for one
\* pair and month, lines 1246-1287: the base factor and 0.5 under three
\* observations, else AVG(month) / AVG(pair) clamped into [0.7, 1.3] and
\* min(1, count / 20)
FactorB(store, pair, month) ==
  LET all == RowsOfPair(store, pair)
      mon == RowsOfMonth(store, pair, month)
  IN  IF Cardinality(mon) < 3 THEN BaseFactorRow(month)
      ELSE [factor |-> Clamp(Ratio(SumFn(RateAt(store), mon) * Cardinality(all),
                                   Cardinality(mon) * SumFn(RateAt(store), all))),
            confidence |-> Min(100, 5 * Cardinality(mon))]

\* the table after a completed pass of B, lines 1245-1296: UPDATE ... WHERE
\* origin_region, destination_region, month changes the rows that exist
AnalyzeB(store, table) ==
  [k \in DOMAIN table |->
     IF <<k[1], k[2]>> \in PairsOf(store)
       THEN FactorB(store, <<k[1], k[2]>>, k[3]) ELSE table[k]]

DatesOf(store, pair) == {store[i].date : i \in RowsOfPair(store, pair)}

MonthsOf(store, pair) == {store[i].date.month : i \in RowsOfPair(store, pair)}

\* analyzeSeasonality of A for one pair and month, lines 488-550.  The rows
\* are grouped by date (AVG(rate), COUNT(*)); avgMonthRate is the mean of the
\* month's date averages, avgYearRate the mean of avgMonthRate over the months
\* present, the factor their quotient and the confidence min(1, rows / 100).
\* With L the least common multiple of the group sizes and M that of the
\* numbers of dates per month, avgMonthRate = U[m] / (L M) for the integer U[m]
FactorA(store, pair, month) ==
  LET rows == RowsOfPair(store, pair)
      dates == DatesOf(store, pair)
      OnDate(d) == {i \in rows : store[i].date = d}
      L == LCMSet({Cardinality(OnDate(d)) : d \in dates})
      DatesIn(m) == {d \in dates : d.month = m}
      M == LCMSet({Cardinality(DatesIn(m)) : m \in MonthsOf(store, pair)})
      T == [d \in dates |->
              SumFn(RateAt(store), OnDate(d)) * (L \div Cardinality(OnDate(d)))]
      U == [m \in MonthsOf(store, pair) |->
              SumFn(T, DatesIn(m)) * (M \div Cardinality(DatesIn(m)))]
  IN  [factor |-> Ratio(U[month] * Cardinality(MonthsOf(store, pair)),
                        SumFn(U, MonthsOf(store, pair))),
       confidence |-> Min(100, Cardinality(RowsOfMonth(store, pair, month)))]

\* the pairs analyzeSeasonality of A computes factors for: those with at least
\* 12 dates, lines 506-509
AnalyzedPairsA(store) == {p \in PairsOf(store) : Cardinality(DatesOf(store, p)) >= 12}

\* the table after a completed pass of A, lines 484-592: INSERT ... ON
\* CONFLICT (origin_region, destination_region, month) DO UPDATE per month
AnalyzeA(store, table) ==
  LET computed == {<<p[1], p[2], m>> : p \in AnalyzedPairsA(store), m \in 1..12}
      written == {k \in computed : k[3] \in MonthsOf(store, <<k[1], k[2]>>)}
  IN  [k \in DOMAIN table \cup written |->
         IF k \in written THEN FactorA(store, <<k[1], k[2]>>, k[3]) ELSE table[k]]

\* getSeasonalityFactor of B, lines 1314-1348: the stored row, else the base
\* factor of the month with confidence 0.5
getSeasonalityFactorB(table, originRegion, destinationRegion, month) ==
  IF <<originRegion, destinationRegion, month>> \in DOMAIN table
    THEN table[<<originRegion, destinationRegion, month>>]
    ELSE BaseFactorRow(month)

\* 1.0 + (factor - 1.0) * confidence of a stored row, lines 647-654
Damped(row) ==
  Ratio(100 * row.factor[2] + (row.factor[1] - row.factor[2]) * row.confidence,
        100 * row.factor[2])

\* getSeasonalityFactor of A, lines 603-660: the damped factor of the stored
\* row, else 1.0
getSeasonalityFactorA(table, originRegion, destinationRegion, month) ==
  IF <<originRegion, destinationRegion, month>> \in DOMAIN table
    THEN Damped(table[<<originRegion, destinationRegion, month>>])
    ELSE <<1, 1>>

\* ORDER BY CASE of src/unnamed/part_000:592-599: 1 for the row of both
\* regions, 2 for the origin's row, 3 for the destination's, 4 otherwise
SpecificityClass(k, originRegion, destinationRegion) ==
  IF k[1] = originRegion /\ k[2] = destinationRegion THEN 1
  ELSE IF k[1] = originRegion THEN 2
  ELSE IF k[2] = destinationRegion THEN 3
  ELSE 4

\* getSeasonalityFactor of src/unnamed/part_000:558-625: the exact row when
\* its confidence is at least 0.5; else the first row of the fallback query
\* (regions equal to the arguments or 'Any', ordered by the CASE above, then
\* confidence DESC, LIMIT 1); else getSeasonalFactorForMonth with 0.5
getSeasonalityFactorTiered(table, originRegion, destinationRegion, month) ==
  LET exact == <<originRegion, destinationRegion, month>>
      rows == {k \in DOMAIN table : /\ k[1] \in {"Any", originRegion}
                                    /\ k[2] \in {"Any", destinationRegion}
                                    /\ k[3] = month}
      Before(j, k) ==
        \/ SpecificityClass(j, originRegion, destinationRegion)
             < SpecificityClass(k, originRegion, destinationRegion)
        \/ /\ SpecificityClass(j, originRegion, destinationRegion)
               = SpecificityClass(k, originRegion, destinationRegion)
           /\ table[j].confidence >= table[k].confidence
  IN  IF exact \in DOMAIN table /\ table[exact].confidence >= 50 THEN table[exact]
      ELSE IF rows # {}
        THEN table[CHOOSE j \in rows : \A k \in rows : j = k \/ Before(j, k)]
      ELSE [factor |-> Ratio(getSeasonalFactorForMonth(month), 100), confidence |-> 50]

\* the retraining requests in flight at once (two concurrent POSTs)
Handlers == {1, 2}

IdleAnalysis == [pc |-> "idle", answer |-> "none"]

NoBoot == [pc |-> "down", server |-> "none"]

NoLookup ==
  [pc |-> "idle", impl |-> "none", origin |-> "", destination |-> "", month |-> 0,
   answer |-> [factor |-> <<0, 1>>, confidence |-> 0]]

NoAnswer == [kind |-> "none", route |-> <<>>, index_date |-> 0, value |-> 0]

NoRead == [pc |-> "idle", impl |-> "none", failure |-> "none", answer |-> NoAnswer]

\* the routines that may run at once
TxSlots == {1, 2}

\* the requests that may call verifyEmail at once
Callers == {1, 2}

NoCall == [pc |-> "idle", email |-> "none", valid |-> FALSE, message |-> "none"]

NoTx ==
  [pc |-> "idle", routine |-> "none", step |-> 0, path |-> "none", releases |-> 0,
   result |-> "none"]

InitService ==
  /\ lookup = NoLookup
  /\ freight_indices_scfi = {}
  /\ read = NoRead
  /\ tx = [s \in TxSlots |-> NoTx]
  /\ checkedOut = 0
  /\ verify = [c \in Callers |-> NoCall]
  /\ verified_emails = <<>>

InitAnalyzer(m) ==
  /\ module = m
  /\ historical_rates = <<>>
  /\ seasonality_factors = <<>>
  /\ boot = NoBoot
  /\ analysis = [h \in Handlers |-> IdleAnalysis]
  /\ audit = NoAudit
  /\ trained = FALSE

----------------------------------------------------------------------------
(* The quote in flight *)

NoReq ==
  [origin |-> "", destination |-> "", containerType |-> "", weight |-> 0,
   containerCount |-> 0, email |-> ""]

NoSeason == [kind |-> "unset", factor |-> 0, confidence |-> 0, month |-> 0]

NoCtx ==
  [seasonalityFactor |-> 0, fuelSurcharge |-> 0, baseRate |-> 0, minRate |-> 0,
   maxRate |-> 0, season |-> NoSeason, historyWrite |-> "none",
   fuelLookup |-> "none"]

NoPrev == [calc |-> "none", req |-> NoReq, base |-> 0]

Init ==
  /\ pc = "idle"
  /\ calc = "none"
  /\ req = NoReq
  /\ adapters = <<>>
  /\ sourcesData = <<>>
  /\ ctx = NoCtx
  /\ res = NoResult
  /\ calculation_history = <<>>
  /\ prev = NoPrev
  /\ InitAnalyzer("none")
  /\ InitService

\* the caller passes port rows and the container type row
BasicCall ==
  /\ pc = "idle"
  /\ \E o \in PortIds, d \in PortIds, c \in ContainerCodes, w \in Weights :
       /\ o # d
       /\ req' = [NoReq EXCEPT !.origin = o, !.destination = d, !.containerType = c,
                               !.weight = w]
  /\ pc' = "collect"
  /\ calc' = "basic"
  /\ UNCHANGED <<adapters, sourcesData, ctx, res, calculation_history, prev>>
  /\ UNCHANGED <<analyzerVars, serviceVars>>

BasicMarkets == [1..Len(BasicSources) -> Outcomes]

BasicCompute ==
  /\ pc = "collect"
  /\ calc = "basic"
  /\ \E m \in BasicMarkets :
       /\ adapters' = m
       /\ sourcesData' = IF \E i \in 1..Len(m) : m[i] = Thrown
                           THEN <<>> ELSE BasicSourcesData(m)
       /\ res' = calculateFreightRate(m, Ports[req.origin], Ports[req.destination],
                                      [isObject |-> TRUE, code |-> req.containerType],
                                      req.weight)
       /\ ctx' = IF (\E i \in 1..Len(m) : m[i] = Thrown) \/ BasicSourcesData(m) = <<>>
                    THEN ctx
                    ELSE LET baseRate == WeightedBaseRate(BasicSourcesData(m))
                             rates == Rates(BasicSourcesData(m))
                         IN  [ctx EXCEPT !.baseRate = baseRate,
                                         !.minRate = BandMin(baseRate, rates),
                                         !.maxRate = BandMax(baseRate, rates)]
  /\ pc' = "done"
  /\ UNCHANGED <<calc, req, calculation_history, prev>>
  /\ UNCHANGED <<analyzerVars, serviceVars>>

\* bound on how many of the ten adapters depart from "none answers" or from
\* "all answer 1800" in one quote
MaxDeviations == 1

EnhancedOutcomes == {NoReading, Thrown, 1800, 3000}

RECURSIVE Deviating(_)
Deviating(k) ==
  IF k = 0
    THEN {[i \in 1..Len(EnhancedSources) |-> NoReading],
          [i \in 1..Len(EnhancedSources) |-> 1800]}
    ELSE Deviating(k - 1)
         \cup {[f EXCEPT ![j] = x] :
                 f \in Deviating(k - 1), j \in 1..Len(EnhancedSources),
                 x \in EnhancedOutcomes}

EnhancedMarkets == Deviating(MaxDeviations)

EnhancedContainerTypes == {"40HC", "20DC"}

EnhancedWeightsKg == {20000, 50000}

\* container types the enhanced calculator knows, lines 687-696
EnhancedKnownTypes == {"40HC", "40DC", "20DC"}

\* the loads requested: the known types and weights, a container type the
\* calculator does not know, a negative weight and a zero weight
EnhancedLoads ==
  (EnhancedContainerTypes \X EnhancedWeightsKg)
    \cup {<<"45HC", 20000>>, <<"40HC", -5>>, <<"40HC", 0>>}

\* outcomes of the seasonality_factors query: a stored row (factor and
\* confidence in hundredths), no row, or a failed query
SeasonOutcomes ==
  {[kind |-> "row", factor |-> 70, confidence |-> 80, month |-> 2],
   [kind |-> "row", factor |-> 120, confidence |-> 50, month |-> 2],
   [kind |-> "none", factor |-> 0, confidence |-> 0, month |-> 2],
   [kind |-> "error", factor |-> 0, confidence |-> 0, month |-> 2]}

FuelOutcomes ==
  {[kind |-> "error", price |-> 0, distance |-> 0],
   [kind |-> "ok", price |-> 500, distance |-> 10000],
   [kind |-> "ok", price |-> 650, distance |-> 18000]}

\* POST /api/calculate of server.js, lines 441-456: a request lacking a
\* parameter (!weight holds for weight 0) is answered 400; otherwise the
\* calculator is called with the port ids, the container type code and the weight
EnhancedCall ==
  /\ pc = "idle"
  /\ \E o \in PortIds \cup {"XXXXX"}, d \in PortIds \cup {"XXXXX"},
        load \in EnhancedLoads :
       /\ o # d
       /\ req' = [NoReq EXCEPT !.origin = o, !.destination = d,
                               !.containerType = load[1], !.weight = load[2]]
       /\ IF load[2] = 0
            THEN pc' = "done" /\ res' = Rejected
            ELSE pc' = "ports" /\ res' = res
  /\ calc' = "enhanced"
  /\ UNCHANGED <<adapters, sourcesData, ctx, calculation_history, prev>>
  /\ UNCHANGED <<analyzerVars, serviceVars>>

\* lines 364-369 and getPortById, lines 713-727: a missing row or a failed
\* query throws, and the catch of calculateFreightRate rethrows (lines 414-417)
EnhancedPorts ==
  /\ pc = "ports"
  /\ calc = "enhanced"
  /\ \E dbOk \in BOOLEAN :
       IF dbOk /\ req.origin \in PortIds /\ req.destination \in PortIds
         THEN pc' = "collect" /\ res' = res
         ELSE pc' = "done" /\ res' = ThrownResult
  /\ UNCHANGED <<calc, req, adapters, sourcesData, ctx, calculation_history, prev>>
  /\ UNCHANGED <<analyzerVars, serviceVars>>

\* lines 371-380: no source at all throws 'No data available from any source'
EnhancedCollect ==
  /\ pc = "collect"
  /\ calc = "enhanced"
  /\ \E m \in EnhancedMarkets :
       /\ adapters' = m
       /\ sourcesData' = collectDataFromAllSources(m)
       /\ IF collectDataFromAllSources(m) = <<>>
            THEN pc' = "done" /\ res' = ThrownResult
            ELSE pc' = "season" /\ res' = res
  /\ UNCHANGED <<calc, req, ctx, calculation_history, prev>>
  /\ UNCHANGED <<analyzerVars, serviceVars>>

EnhancedSeason ==
  /\ pc = "season"
  /\ \E s \in SeasonOutcomes :
       ctx' = [ctx EXCEPT !.seasonalityFactor = getSeasonalityFactor(s),
                          !.season = s]
  /\ pc' = "fuel"
  /\ UNCHANGED <<calc, req, adapters, sourcesData, res, calculation_history, prev>>
  /\ UNCHANGED <<analyzerVars, serviceVars>>

EnhancedFuel ==
  /\ pc = "fuel"
  /\ \E f \in FuelOutcomes :
       ctx' = [ctx EXCEPT !.fuelSurcharge = calculateFuelSurcharge(f, req.containerType),
                          !.fuelLookup = f.kind]
  /\ pc' = "save"
  /\ UNCHANGED <<calc, req, adapters, sourcesData, res, calculation_history, prev>>
  /\ UNCHANGED <<analyzerVars, serviceVars>>

\* lines 391-413 and saveCalculationHistory, lines 730-752: a failed INSERT is
\* logged and swallowed
EnhancedSave ==
  /\ pc = "save"
  /\ LET wr == calculateWeightedRate(sourcesData)
         finalRate == calculateFinalRate(wr.ws, wr.tw, ctx.seasonalityFactor,
                                         req.containerType, req.weight, ctx.fuelSurcharge)
     IN  /\ \E saved \in BOOLEAN :
              /\ calculation_history' =
                   IF saved
                     THEN Append(calculation_history,
                                 [origin |-> req.origin, destination |-> req.destination,
                                  containerType |-> req.containerType,
                                  weight |-> req.weight, rate |-> finalRate])
                     ELSE calculation_history
              /\ ctx' = [ctx EXCEPT !.historyWrite = IF saved THEN "ok" ELSE "failed"]
         /\ res' = EnhancedResult(Ports[req.origin], Ports[req.destination], sourcesData,
                                  wr, ctx.seasonalityFactor, ctx.fuelSurcharge, finalRate)
  /\ pc' = "done"
  /\ UNCHANGED <<calc, req, adapters, sourcesData, prev>>
  /\ UNCHANGED <<analyzerVars, serviceVars>>

IndexedOutcomes == {NoReading, Thrown, 1000, 3000}

IndexedMarkets == [1..Len(IndexedSources) -> IndexedOutcomes]

IndexedContainerCodes == {"20DC", "40HC"}

ContainerCounts == {1, 10}

\* the caller passes port rows, the container type row and a count
IndexedCall ==
  /\ pc = "idle"
  /\ \E o \in PortIds, d \in PortIds, c \in IndexedContainerCodes, k \in ContainerCounts :
       /\ o # d
       /\ req' = [NoReq EXCEPT !.origin = o, !.destination = d, !.containerType = c,
                               !.containerCount = k]
  /\ pc' = "collect"
  /\ calc' = "indexed"
  /\ UNCHANGED <<adapters, sourcesData, ctx, res, calculation_history, prev>>
  /\ UNCHANGED <<analyzerVars, serviceVars>>

IndexedCompute ==
  /\ pc = "collect"
  /\ calc = "indexed"
  /\ \E m \in IndexedMarkets :
       /\ adapters' = m
       /\ sourcesData' = collectDataFromAllSourcesIndexed(m)
       /\ res' = IndexedQuote(Ports[req.origin], Ports[req.destination],
                              req.containerType, req.containerCount,
                              collectDataFromAllSourcesIndexed(m))
  /\ pc' = "done"
  /\ UNCHANGED <<calc, req, ctx, calculation_history, prev>>
  /\ UNCHANGED <<analyzerVars, serviceVars>>

\* request bodies of POST /api/calculate
MockPlaces == {"Shanghai", "Rotterdam", "Los Angeles", "New York"}

MockContainerTypes == {"20DV", "40DV", "40HQ", Unconvertible}

Emails == {"user@example.com", "user", ""}

\* /^[^\s@]+@[^\s@]+\.[^\s@]+$/ on the addresses of Emails
EmailRegexTest(email) == email = "user@example.com"

Months == 1..12

\* Math.random() in hundredths
RandomDraws == {0, 50, 99}

MockCall ==
  /\ pc = "idle"
  /\ \E o \in MockPlaces, d \in MockPlaces, c \in MockContainerTypes, e \in Emails :
       /\ o # d
       /\ req' = [NoReq EXCEPT !.origin = o, !.destination = d, !.containerType = c,
                               !.email = e]
  /\ pc' = "calculate"
  /\ calc' = "mock"
  /\ UNCHANGED <<adapters, sourcesData, ctx, res, calculation_history, prev>>
  /\ UNCHANGED <<analyzerVars, serviceVars>>

\* POST /api/calculate of server_updated.js, lines 364-410: validation, the
\* quote, then the INSERT, whose failure is logged and ignored
MockCalculate ==
  /\ pc = "calculate"
  /\ calc = "mock"
  /\ IF req.email = "" \/ ~EmailRegexTest(req.email)
       THEN res' = Rejected /\ UNCHANGED <<calculation_history, ctx>>
       ELSE \E month \in Months, rnd \in RandomDraws, saved \in BOOLEAN :
              LET result == calculateFreightRateMock(req.origin, req.destination,
                                                     req.containerType, month, rnd)
              IN  /\ res' = result
                  /\ ctx' = [ctx EXCEPT !.historyWrite =
                                          IF saved THEN "ok" ELSE "failed"]
                  /\ calculation_history' =
                       IF saved
                         THEN Append(calculation_history,
                                     [origin |-> req.origin, destination |-> req.destination,
                                      containerType |-> req.containerType,
                                      weight |-> req.weight, rate |-> result.rate])
                         ELSE calculation_history
  /\ pc' = "done"
  /\ UNCHANGED <<calc, req, adapters, sourcesData, prev>>
  /\ UNCHANGED <<analyzerVars, serviceVars>>

\* calculateFallbackRate called on its own; in server_updated.js its one caller
\* is the catch of calculateFreightRate
FallbackCall ==
  /\ pc = "idle"
  /\ \E o \in MockPlaces, d \in MockPlaces, c \in MockContainerTypes :
       /\ o # d
       /\ req' = [NoReq EXCEPT !.origin = o, !.destination = d, !.containerType = c]
  /\ pc' = "calculate"
  /\ calc' = "mockFallback"
  /\ UNCHANGED <<adapters, sourcesData, ctx, res, calculation_history, prev>>
  /\ UNCHANGED <<analyzerVars, serviceVars>>

FallbackRate ==
  /\ pc = "calculate"
  /\ calc = "mockFallback"
  /\ \E month \in Months, rnd \in RandomDraws :
       res' = calculateFallbackRate(req.origin, req.destination, req.containerType,
                                    month, rnd)
  /\ pc' = "done"
  /\ UNCHANGED <<calc, req, adapters, sourcesData, ctx, calculation_history, prev>>
  /\ UNCHANGED <<analyzerVars, serviceVars>>

SimpleCall ==
  /\ pc = "idle"
  /\ \E o \in PortIds, d \in PortIds, c \in ContainerCodes, e \in Emails :
       /\ o # d
       /\ req' = [NoReq EXCEPT !.origin = o, !.destination = d, !.containerType = c,
                               !.email = e]
  /\ pc' = "calculate"
  /\ calc' = "simple"
  /\ UNCHANGED <<adapters, sourcesData, ctx, res, calculation_history, prev>>
  /\ UNCHANGED <<analyzerVars, serviceVars>>

\* POST /api/calculate of server.js, lines 1196-1243: the INSERT is awaited
\* inside the try, so its failure answers 500 instead of the quote
SimpleCalculate ==
  /\ pc = "calculate"
  /\ calc = "simple"
  /\ IF req.email = "" \/ ~EmailRegexTest(req.email)
       THEN res' = Rejected /\ UNCHANGED <<calculation_history, ctx>>
       ELSE \E r1 \in RandomDraws, r2 \in RandomDraws, r3 \in RandomDraws,
               saved \in BOOLEAN :
              LET result == SimpleQuote(req.origin, req.destination, r1, r2, r3)
              IN  IF saved
                    THEN /\ res' = result
                         /\ ctx' = [ctx EXCEPT !.historyWrite = "ok"]
                         /\ calculation_history' =
                              Append(calculation_history,
                                     [origin |-> req.origin, destination |-> req.destination,
                                      containerType |-> req.containerType,
                                      weight |-> req.weight, rate |-> result.rate])
                    ELSE /\ res' = Failed
                         /\ ctx' = [ctx EXCEPT !.historyWrite = "failed"]
                         /\ UNCHANGED calculation_history
  /\ pc' = "done"
  /\ UNCHANGED <<calc, req, adapters, sourcesData, prev>>
  /\ UNCHANGED <<analyzerVars, serviceVars>>

\* a quote made without any reading
Sourceless(r) ==
  r.kind = "result" /\ r.path \in {"fallback", "emergency", "standard", "simple"}

\* the base rate a result object reports: its baseRate field, else its rate
BaseRateOf(r) == IF "baseRate" \in r.fields THEN r.baseRate ELSE r.rate

Return ==
  /\ pc = "done"
  /\ pc' = "idle"
  /\ calc' = "none"
  /\ req' = NoReq
  /\ adapters' = <<>>
  /\ sourcesData' = <<>>
  /\ ctx' = NoCtx
  /\ res' = NoResult
  /\ calculation_history' = <<>>
  /\ prev' = NoPrev
  /\ UNCHANGED <<analyzerVars, serviceVars>>

\* the caller got a quote made without any reading and asks for the same quote
\* again, keeping the base rate of the first
Repeat ==
  /\ pc = "done"
  /\ prev = NoPrev
  /\ Sourceless(res)
  /\ prev' = [calc |-> calc, req |-> req, base |-> BaseRateOf(res)]
  /\ pc' = IF calc \in {"basic", "indexed"} THEN "collect" ELSE "calculate"
  /\ adapters' = <<>>
  /\ sourcesData' = <<>>
  /\ res' = NoResult
  /\ calculation_history' = <<>>
  /\ UNCHANGED <<calc, req, ctx>>
  /\ UNCHANGED <<analyzerVars, serviceVars>>

Next ==
  \/ BasicCall
  \/ BasicCompute
  \/ EnhancedCall
  \/ EnhancedPorts
  \/ EnhancedCollect
  \/ EnhancedSeason
  \/ EnhancedFuel
  \/ EnhancedSave
  \/ IndexedCall
  \/ IndexedCompute
  \/ MockCall
  \/ MockCalculate
  \/ SimpleCall
  \/ SimpleCalculate
  \/ Return

Spec == Init /\ [][Next]_vars

\* the same with repeated quotes, and with calculateFallbackRate called on its own
NextRepeat ==
  \/ Next
  \/ FallbackCall
  \/ FallbackRate
  \/ Repeat

SpecRepeat == Init /\ [][NextRepeat]_vars

----------------------------------------------------------------------------
(* the seasonality analyzer as a state machine: the server starts, its
   initializeSystem runs step by step while it already serves requests,
   calculations are logged and retraining is requested *)

\* rows of calculation_history the specification lets accumulate
MaxHistory == 2

\* the calculations logged: origin, destination, rate
LoggedQuotes == {<<"CNSHA", "SGSIN", 2000>>, <<"CNSHA", "NLRTM", 9000>>}

\* which server starts: "reset" is src/server.js:1-360, whose initializeSystem
\* (lines 50-63) resets the tables and calls initializeAndUpdateSeasonalityData();
\* "keep" is src/server.js:363-1047, whose initializeSystem (lines 413-427)
\* calls initializeAndUpdateSeasonalityData(false)
Servers == {"reset", "keep"}

\* the server process starts, or starts again once its requests have ended:
\* app.listen, then initializeSystem.  The requests below are those that
\* arrive after initializeSystem has ended
Start ==
  /\ boot.pc \in {"down", "up"}
  /\ \A h \in Handlers : analysis[h].pc = "idle"
  /\ \E s \in Servers :
       boot' = [pc |-> IF s = "reset" THEN "reset" ELSE "tables", server |-> s]
  /\ UNCHANGED <<module, historical_rates, seasonality_factors, analysis, audit,
                 trained, calculation_history>>
  /\ UNCHANGED <<quoteVars, serviceVars>>

\* saveCalculationHistory, src/server.js:121-179: a row dated NOW()
LogCalculation ==
  /\ boot.pc = "up"
  /\ Len(calculation_history) < MaxHistory
  /\ \E q \in LoggedQuotes :
       calculation_history' =
         Append(calculation_history, HistoryRow(q[1], q[2], "40HC", q[3], Today))
  /\ UNCHANGED <<analyzerVars, serviceVars>>
  /\ UNCHANGED quoteVars

\* resetProblematicTables, src/server.js:38-47: DROP TABLE IF EXISTS
\* historical_rates CASCADE.  Here and in the imports and the generation
\* below the statements succeed; tables and training passes may fail
BootReset ==
  /\ boot.pc = "reset"
  /\ historical_rates' = <<>>
  /\ trained' = (trained /\ historical_rates' = historical_rates)
  /\ boot' = [boot EXCEPT !.pc = "tables"]
  /\ UNCHANGED <<module, seasonality_factors, analysis, audit, calculation_history>>
  /\ UNCHANGED <<quoteVars, serviceVars>>

\* A: initializeSeasonalityTables, lines 20-98, drops historical_rates and
\* creates the tables; an error rolls back and is swallowed.
\* B: initializeSeasonalityTable, lines 801-870, then
\* initializeHistoricalRatesTable, lines 873-908; an error is rethrown and
\* ends initializeAndUpdateSeasonalityData
BootTables ==
  /\ boot.pc = "tables"
  /\ \E ok \in BOOLEAN :
       /\ historical_rates' = IF module = "A" /\ ok THEN <<>> ELSE historical_rates
       /\ seasonality_factors' =
            IF module = "B" /\ ok
              THEN initializeSeasonalityTable(seasonality_factors)
              ELSE seasonality_factors
       /\ boot' = [boot EXCEPT !.pc = IF module = "B" /\ ~ok THEN "up" ELSE "import"]
  /\ trained' = (trained /\ historical_rates' = historical_rates)
  /\ UNCHANGED <<module, analysis, audit, calculation_history>>
  /\ UNCHANGED <<quoteVars, serviceVars>>

\* the store and the audit after a transaction writing rows: a statement that
\* raises rolls the transaction back
Written(op, rows, upsert) ==
  LET b == Batch(historical_rates, rows, upsert)
  IN  [store |-> IF b.raised THEN historical_rates ELSE b.rows,
       audit |-> [op |-> op, writes |-> Len(rows), conflicts |-> b.conflicts,
                  raised |-> b.raised]]

\* importHistoricalDataFromCalculationHistory: A, lines 124-257 (errors
\* swallowed); B, lines 911-981 (errors rethrown)
BootImport ==
  /\ boot.pc = "import"
  /\ LET w == Written("import",
                      IF module = "A" THEN ImportedRowsA(calculation_history)
                                      ELSE ImportedRowsB(calculation_history),
                      module = "A")
     IN  /\ historical_rates' = w.store
         /\ audit' = w.audit
         /\ boot' = [boot EXCEPT !.pc = IF module = "A" THEN "synthetic"
                                        ELSE IF ~w.audit.raised THEN "indices"
                                        ELSE "up"]
  /\ trained' = (trained /\ historical_rates' = historical_rates)
  /\ UNCHANGED <<module, seasonality_factors, analysis, calculation_history>>
  /\ UNCHANGED <<quoteVars, serviceVars>>

\* importHistoricalDataFromIndices of B, lines 984-1072
BootIndices ==
  /\ boot.pc = "indices"
  /\ LET w == Written("indices", IndexedRowsB(IndexRows), FALSE)
     IN  /\ historical_rates' = w.store
         /\ audit' = w.audit
         /\ boot' = [boot EXCEPT !.pc = IF ~w.audit.raised THEN "synthetic" ELSE "up"]
  /\ trained' = (trained /\ historical_rates' = historical_rates)
  /\ UNCHANGED <<module, seasonality_factors, analysis, calculation_history>>
  /\ UNCHANGED <<quoteVars, serviceVars>>

\* base rates 1000 + Math.random() * 2000 of A, line 332
SyntheticBaseRatesA == {1000, 2400}

\* generateSyntheticHistoricalData.  A, lines 101-121 and 260-421: run when
\* the store has fewer than 1000 rows, errors swallowed.  B, lines 1414-1417
\* and 1114-1227: run when generateSynthetic holds (its default, the "reset"
\* server), errors rethrown
BootSynthetic ==
  /\ boot.pc = "synthetic"
  /\ \E baseRate \in SyntheticBaseRatesA, rf \in RandomFactors :
       LET run == IF module = "A" THEN Len(historical_rates) < 1000
                                  ELSE boot.server = "reset"
           w == Written("synthetic",
                        IF module = "A" THEN SyntheticRowsA(baseRate, rf)
                                        ELSE SyntheticRowsB(rf),
                        FALSE)
       IN  /\ historical_rates' = IF run THEN w.store ELSE historical_rates
           /\ audit' = IF run THEN w.audit ELSE audit
           /\ boot' = [boot EXCEPT !.pc = IF module = "B" /\ run /\ w.audit.raised
                                            THEN "up" ELSE "analyze"]
  /\ trained' = (trained /\ historical_rates' = historical_rates)
  /\ UNCHANGED <<module, seasonality_factors, analysis, calculation_history>>
  /\ UNCHANGED <<quoteVars, serviceVars>>

\* the table after a training pass that met no error
Analyzed ==
  IF module = "A" THEN AnalyzeA(historical_rates, seasonality_factors)
                  ELSE AnalyzeB(historical_rates, seasonality_factors)

\* the last step of initializeAndUpdateSeasonalityData: analyzeSeasonality
\* (A, line 734) or analyzeSeasonalityFactors (B, line 1420)
BootAnalyze ==
  /\ boot.pc = "analyze"
  /\ \E ok \in BOOLEAN :
       /\ seasonality_factors' = IF ok THEN Analyzed ELSE seasonality_factors
       /\ trained' = (ok \/ trained)
  /\ boot' = [boot EXCEPT !.pc = "up"]
  /\ UNCHANGED <<module, historical_rates, analysis, audit, calculation_history>>
  /\ UNCHANGED <<quoteVars, serviceVars>>

\* POST /api/analyze-seasonality, src/server.js:337-350, or POST
\* /api/update-indices, src/server.js:782-788: the handler calls
\* analyzeSeasonalityFactors at once, whatever else is running
AnalyzeRequest(h) ==
  /\ boot.pc = "up"
  /\ analysis[h].pc = "idle"
  /\ analysis' = [analysis EXCEPT ![h].pc = "running"]
  /\ UNCHANGED <<module, historical_rates, seasonality_factors, boot, audit, trained,
                 calculation_history>>
  /\ UNCHANGED <<quoteVars, serviceVars>>

\* analyzeSeasonalityFactors runs to its end.  A, lines 747-755: true after
\* analyzeSeasonality, which catches its own errors (lines 594-598), so true
\* after a failed pass too.  B, lines 1230-1311: no return statement, so
\* undefined after COMMIT, and the error rethrown after ROLLBACK
AnalyzeComplete(h) ==
  /\ analysis[h].pc = "running"
  /\ \E ok \in BOOLEAN :
       /\ seasonality_factors' = IF ok THEN Analyzed ELSE seasonality_factors
       /\ trained' = (ok \/ trained)
       /\ analysis' = [analysis EXCEPT
                         ![h] = [pc |-> "done",
                                 answer |-> IF module = "A" THEN "true"
                                            ELSE IF ok THEN "undefined"
                                            ELSE "thrown"]]
  /\ UNCHANGED <<module, historical_rates, boot, audit, calculation_history>>
  /\ UNCHANGED <<quoteVars, serviceVars>>

\* the handler answers and ends
Respond(h) ==
  /\ analysis[h].pc = "done"
  /\ analysis' = [analysis EXCEPT ![h] = IdleAnalysis]
  /\ UNCHANGED <<module, historical_rates, seasonality_factors, boot, audit, trained,
                 calculation_history>>
  /\ UNCHANGED <<quoteVars, serviceVars>>

InitSeason ==
  /\ pc = "idle"
  /\ calc = "none"
  /\ req = NoReq
  /\ adapters = <<>>
  /\ sourcesData = <<>>
  /\ ctx = NoCtx
  /\ res = NoResult
  /\ calculation_history = <<>>
  /\ prev = NoPrev
  /\ \E m \in Modules : InitAnalyzer(m)
  /\ InitService

NextSeason ==
  \/ Start
  \/ LogCalculation
  \/ BootReset
  \/ BootTables
  \/ BootImport
  \/ BootIndices
  \/ BootSynthetic
  \/ BootAnalyze
  \/ \E h \in Handlers : AnalyzeRequest(h)
  \/ \E h \in Handlers : AnalyzeComplete(h)
  \/ \E h \in Handlers : Respond(h)

SpecSeason == InitSeason /\ [][NextSeason]_vars

\* Training on a given store.  historical_rates holds, for Asia -> Europe, one
\* observation on the 15th of each month from month first on and extra
\* observations on the first days of month m; the server is up and the
\* retraining requests run on that store

FirstMonths == {1, 2}

ExtraMonths == {3, 6}

ExtraCounts == {0, 1, 2, 19, 22}

ExtraRates == {1000, 3000}

ObservedRow(date, rate) ==
  [origin |-> IF module = "A" THEN "CNSHA" ELSE "Asia",
   destination |-> IF module = "A" THEN "NLRTM" ELSE "Europe",
   origin_region |-> "Asia", destination_region |-> "Europe",
   container_type |-> "40HC", rate |-> rate, date |-> date,
   source |-> "calculation_history"]

TrainingStore(first, m, e, rate) ==
  [i \in 1..(13 - first + e) |->
     IF i <= 13 - first
       THEN ObservedRow(Date(2024, first + i - 1, 15),
                        10 * BASE_SEASONALITY_FACTORS[first + i - 1])
       ELSE ObservedRow(Date(2025, m, i - (13 - first)), rate)]

InitTrain ==
  /\ pc = "idle"
  /\ calc = "none"
  /\ req = NoReq
  /\ adapters = <<>>
  /\ sourcesData = <<>>
  /\ ctx = NoCtx
  /\ res = NoResult
  /\ calculation_history = <<>>
  /\ prev = NoPrev
  /\ module \in Modules
  /\ \E first \in FirstMonths, m \in ExtraMonths, e \in ExtraCounts, rate \in ExtraRates :
       historical_rates = TrainingStore(first, m, e, rate)
  /\ seasonality_factors =
       IF module = "B" THEN initializeSeasonalityTable(<<>>) ELSE <<>>
  /\ boot = [pc |-> "up", server |-> "keep"]
  /\ analysis = [h \in Handlers |-> IdleAnalysis]
  /\ audit = NoAudit
  /\ trained = FALSE
  /\ InitService

NextTrain ==
  \/ \E h \in Handlers : AnalyzeRequest(h)
  \/ \E h \in Handlers : AnalyzeComplete(h)
  \/ \E h \in Handlers : Respond(h)

SpecTrain == InitTrain /\ [][NextTrain]_vars

\* Seasonality lookups on a given table.  The rows of month 6 for Asia ->
\* Europe and for the 'Any' regions the fallback query of part_000 reads, each
\* absent or present with a confidence under or over 0.5; the factor of a row
\* tells the rows apart

LookupKeys ==
  {<<"Asia", "Europe", 6>>, <<"Asia", "Any", 6>>, <<"Any", "Europe", 6>>,
   <<"Any", "Any", 6>>}

LookupConfidences == {30, 80}

LookupRow(k, confidence) ==
  [factor |-> Ratio(100 + 4 * SpecificityClass(k, "Asia", "Europe"), 100),
   confidence |-> confidence]

LookupTables ==
  UNION {{[k \in D |-> LookupRow(k, c[k])] : c \in [D -> LookupConfidences]} :
           D \in SUBSET LookupKeys}

LookupRoutes == {<<"Asia", "Europe">>, <<"Europe", "Asia">>}

LookupMonths == {6, 7}

InitLookup ==
  /\ pc = "idle"
  /\ calc = "none"
  /\ req = NoReq
  /\ adapters = <<>>
  /\ sourcesData = <<>>
  /\ ctx = NoCtx
  /\ res = NoResult
  /\ calculation_history = <<>>
  /\ prev = NoPrev
  /\ module = "none"
  /\ historical_rates = <<>>
  /\ seasonality_factors \in LookupTables
  /\ boot = [pc |-> "up", server |-> "keep"]
  /\ analysis = [h \in Handlers |-> IdleAnalysis]
  /\ audit = NoAudit
  /\ trained = FALSE
  /\ InitService

\* getSeasonalityFactor(originRegion, destinationRegion, month) is called and
\* answers: impl "tiered" is src/unnamed/part_000:558-625, impl "B" is
\* src/seasonality_analyzer.js:1314-1348
LookupCall ==
  /\ lookup.pc = "idle"
  /\ \E impl \in {"tiered", "B"}, route \in LookupRoutes, month \in LookupMonths :
       lookup' =
         [pc |-> "done", impl |-> impl, origin |-> route[1],
          destination |-> route[2], month |-> month,
          answer |-> IF impl = "tiered"
                       THEN getSeasonalityFactorTiered(seasonality_factors,
                                                       route[1], route[2], month)
                       ELSE getSeasonalityFactorB(seasonality_factors,
                                                  route[1], route[2], month)]
  /\ UNCHANGED <<quoteVars, analyzerVars, calculation_history, freight_indices_scfi,
                 read, tx, checkedOut, verify, verified_emails>>

\* the caller has used the answer
LookupReturn ==
  /\ lookup.pc = "done"
  /\ lookup' = NoLookup
  /\ UNCHANGED <<quoteVars, analyzerVars, calculation_history, freight_indices_scfi,
                 read, tx, checkedOut, verify, verified_emails>>

NextLookup ==
  \/ LookupCall
  \/ LookupReturn

SpecLookup == InitLookup /\ [][NextLookup]_vars

\* calculateBaseRate on given port names.  "Shanghai" hashes to a negative
\* int32; "GydZG_" hashes to -2^31, and so does "Gyd" followed by "ZG_"

NamedPorts ==
  {[name |-> <<83, 104, 97, 110, 103, 104, 97, 105>>, label |-> "Shanghai"],
   [name |-> <<82, 111, 116, 116, 101, 114, 100, 97, 109>>, label |-> "Rotterdam"],
   [name |-> <<83, 105, 110, 103, 97, 112, 111, 114, 101>>, label |-> "Singapore"],
   [name |-> <<71, 121, 100>>, label |-> "Gyd"],
   [name |-> <<90, 71, 95>>, label |-> "ZG_"],
   [name |-> <<71, 121, 100, 90, 71, 95>>, label |-> "GydZG_"],
   [name |-> <<72, 97, 109, 98, 117, 114, 103>>, label |-> "Hamburg"],
   [name |-> <<65>>, label |-> "A"],
   [name |-> <<>>, label |-> ""]}

\* calculateBaseRate(origin, destination) of src/freight_calculator.js:187-244
\* ("basic") or of src/unnamed/part_001:25-60 ("indexed") is called and returns
BaseRateCall ==
  /\ pc = "idle"
  /\ \E o \in NamedPorts, d \in NamedPorts, c \in {"basic", "indexed"} :
       /\ calc' = c
       /\ req' = [NoReq EXCEPT !.origin = o.label, !.destination = d.label]
       /\ adapters' = <<o.name, d.name>>
       /\ res' = IF c = "basic"
                   THEN calculateBaseRate(o, d, [isObject |-> TRUE, code |-> "40HC"],
                                          20000)
                   ELSE [NoResult EXCEPT
                           !.kind = "result", !.path = "fallback",
                           !.route = Route(o, d), !.fields = {"baseRate"},
                           !.baseRate = calculateBaseRateIndexed(o, d),
                           !.base = calculateBaseRateIndexed(o, d)]
  /\ pc' = "done"
  /\ UNCHANGED <<sourcesData, ctx, calculation_history, prev>>
  /\ UNCHANGED <<analyzerVars, serviceVars>>

NextFallback ==
  \/ BaseRateCall
  \/ Return

SpecFallback == Init /\ [][NextFallback]_vars

\* The SCFI adapter reading a given freight_indices_scfi table.  A route is
\* the sequence of the words of its text; route ILIKE '%a%' holds when a is
\* one of them and route ILIKE '%a%b%' when a comes before b

Mentions(route, a) == \E i \in 1..Len(route) : route[i] = a

MentionsInOrder(route, a, b) ==
  \E i \in 1..Len(route), j \in 1..Len(route) : i < j /\ route[i] = a /\ route[j] = b

\* ORDER BY index_date DESC LIMIT 1: a row of the latest date (any of them
\* when several rows share it)
Latest(rows) == {r \in rows : \A q \in rows : q.index_date <= r.index_date}

RowAnswer(r) ==
  [kind |-> "row", route |-> r.route, index_date |-> r.index_date,
   value |-> r.current_index]

NullAnswer == [NoAnswer EXCEPT !.kind = "null"]

ThrownAnswer == [NoAnswer EXCEPT !.kind = "thrown"]

\* the mock reading of src/server.js:1684-1705
MockAnswer == [NoAnswer EXCEPT !.kind = "mock", !.value = 1950]

\* a function body without its try/catch: what the body ends with reaches
\* the caller
Uncaught(outcome, substitute) == outcome

\* try { body } catch (error) { return substitute }
Caught(outcome, substitute) ==
  IF outcome.kind = "thrown" THEN substitute ELSE outcome

\* body of getSCFIDataForRoute of src/scfi_scraper.js:144-186: what it may
\* end with for the names getPortNameById gave, failure naming the query
\* that rejects
getSCFIDataForRoute(table, originName, destinationName, failure) ==
  LET exact == {r \in table : MentionsInOrder(r.route, originName, destinationName)}
      similar == {r \in table : \/ Mentions(r.route, originName)
                                \/ Mentions(r.route, destinationName)}
  IN  IF failure = "first" THEN {ThrownAnswer}
      ELSE IF exact # {} THEN {RowAnswer(r) : r \in Latest(exact)}
      ELSE IF failure = "second" THEN {ThrownAnswer}
      ELSE IF similar # {} THEN {RowAnswer(r) : r \in Latest(similar)}
      ELSE {NullAnswer}

\* routePatterns of src/server.js:1720-1733
RoutePatterns(originRegion, destinationRegion, destination) ==
  IF originRegion = "Asia" /\ destinationRegion = "Europe"
    THEN <<"SCFI Europe", "SCFI Mediterranean">>
  ELSE IF originRegion = "Asia" /\ destinationRegion = "North America"
    THEN IF destination \in {"USLAX", "USLGB", "USSEA", "USOAK", "USSFO", "USPDX",
                             "CAVAN", "CAPRI"}
           THEN <<"SCFI North America West">> ELSE <<"SCFI North America East">>
  ELSE IF originRegion = "Asia" /\ destinationRegion = "Asia"
    THEN <<"SCFI Southeast Asia">>
  ELSE <<>>

\* the loop of src/server.js:1736-1750 from pattern i on
RECURSIVE FirstPatternRows(_, _, _)
FirstPatternRows(table, patterns, i) ==
  IF i > Len(patterns) THEN {}
  ELSE LET rows == {r \in table : Mentions(r.route, patterns[i])}
       IN  IF rows # {} THEN Latest(rows) ELSE FirstPatternRows(table, patterns, i + 1)

\* body of getSCFIDataForRoute of src/server.js:1710-1765
getSCFIDataForRouteByRegion(table, originRegion, destinationRegion, destination, failure) ==
  LET patterns == RoutePatterns(originRegion, destinationRegion, destination)
      lane == FirstPatternRows(table, patterns, 1)
      composite == {r \in table : r.route = <<"SCFI Composite Index">>}
  IN  IF failure = "first" /\ patterns # <<>> THEN {ThrownAnswer}
      ELSE IF lane # {} THEN {RowAnswer(r) : r \in lane}
      ELSE IF failure \in {"first", "second"} THEN {ThrownAnswer}
      ELSE IF composite # {} THEN {RowAnswer(r) : r \in Latest(composite)}
      ELSE {NullAnswer}

\* body of getSCFIDataForCalculation of src/server.js:1631-1707: the composite
\* row of the table, else the composite reading fetchSCFIData gives (a throw
\* of the fetch is caught inside, lines 1662-1682), else the mock reading
getSCFIDataForCalculation(table, failure, fetched) ==
  LET composite == {r \in table : r.route = <<"SCFI Composite Index">>}
  IN  IF failure = "first" THEN {ThrownAnswer}
      ELSE IF composite # {} THEN {RowAnswer(r) : r \in Latest(composite)}
      ELSE IF fetched > 0
        THEN {[kind |-> "row", route |-> <<"SCFI Composite Index">>,
               index_date |-> 0, value |-> fetched]}
      ELSE {MockAnswer}

\* the routes the table may hold, each on one of the dates or not at all
ScfiRoutes ==
  {<<"Shanghai", "Rotterdam">>, <<"Shanghai", "Hamburg">>,
   <<"Singapore", "Rotterdam">>, <<"SCFI Europe">>, <<"SCFI Composite Index">>}

ScfiDates == {1, 2}

ScfiRow(route, date) ==
  [route |-> route, index_date |-> date, current_index |-> 1000 + 100 * date]

ScfiTables ==
  UNION {{{ScfiRow(route, d[route]) : route \in R} : d \in [R -> ScfiDates]} :
           R \in SUBSET ScfiRoutes}

ReadFailures == {"none", "first", "second"}

\* values of the composite index fetchSCFIData may give; 0 when it gives
\* none or throws
FetchedValues == {0, 2100}

InitAdapter ==
  /\ pc = "idle"
  /\ calc = "none"
  /\ req = NoReq
  /\ adapters = <<>>
  /\ sourcesData = <<>>
  /\ ctx = NoCtx
  /\ res = NoResult
  /\ calculation_history = <<>>
  /\ prev = NoPrev
  /\ InitAnalyzer("none")
  /\ lookup = NoLookup
  /\ freight_indices_scfi \in ScfiTables
  /\ read = NoRead
  /\ tx = [s \in TxSlots |-> NoTx]
  /\ checkedOut = 0
  /\ verify = [c \in Callers |-> NoCall]
  /\ verified_emails = <<>>

\* getSCFIDataForRoute('CNSHA', 'NLRTM') of src/scfi_scraper.js is called and
\* answers; named says whether getPortNameById found the names (it returns the
\* port id when its query finds nothing or rejects, lines 189-197)
ScraperRead ==
  /\ read.pc = "idle"
  /\ \E failure \in ReadFailures, named \in BOOLEAN :
       \E outcome \in getSCFIDataForRoute(freight_indices_scfi,
                                          IF named THEN "Shanghai" ELSE "CNSHA",
                                          IF named THEN "Rotterdam" ELSE "NLRTM",
                                          failure) :
         read' = [pc |-> "done", impl |-> IF named THEN "scraper" ELSE "scraper ids",
                  failure |-> failure, answer |-> Caught(outcome, NullAnswer)]
  /\ UNCHANGED <<quoteVars, analyzerVars, calculation_history, lookup,
                 freight_indices_scfi, tx, checkedOut, verify, verified_emails>>

\* getSCFIDataForRoute('CNSHA', 'NLRTM') of src/server.js is called and
\* answers; getPortRegionById gives 'Unknown' when its query finds nothing or
\* rejects (lines 1768-1776)
ServerRead ==
  /\ read.pc = "idle"
  /\ \E failure \in ReadFailures, known \in BOOLEAN :
       \E outcome \in getSCFIDataForRouteByRegion(
                        freight_indices_scfi,
                        IF known THEN "Asia" ELSE "Unknown",
                        IF known THEN "Europe" ELSE "Unknown", "NLRTM", failure) :
         read' = [pc |-> "done", impl |-> IF known THEN "server" ELSE "server unknown",
                  failure |-> failure, answer |-> Caught(outcome, NullAnswer)]
  /\ UNCHANGED <<quoteVars, analyzerVars, calculation_history, lookup,
                 freight_indices_scfi, tx, checkedOut, verify, verified_emails>>

\* getSCFIDataForCalculation() of src/server.js is called and answers
CalculationRead ==
  /\ read.pc = "idle"
  /\ \E failure \in {"none", "first"}, fetched \in FetchedValues :
       \E outcome \in getSCFIDataForCalculation(freight_indices_scfi, failure, fetched) :
         read' = [pc |-> "done", impl |-> "calculation", failure |-> failure,
                  answer |-> Caught(outcome, MockAnswer)]
  /\ UNCHANGED <<quoteVars, analyzerVars, calculation_history, lookup,
                 freight_indices_scfi, tx, checkedOut, verify, verified_emails>>

\* the caller has used the answer
ReadReturn ==
  /\ read.pc = "done"
  /\ read' = NoRead
  /\ UNCHANGED <<quoteVars, analyzerVars, calculation_history, lookup,
                 freight_indices_scfi, tx, checkedOut, verify, verified_emails>>

NextAdapter ==
  \/ ScraperRead
  \/ ServerRead
  \/ CalculationRead
  \/ ReadReturn

SpecAdapter == InitAdapter /\ [][NextAdapter]_vars

\* The transactional routines: const client = await pool.connect(); try {
\* BEGIN; statements; COMMIT } catch { ROLLBACK; log, and rethrow in some }
\* finally { client.release() }

\* the routines, and whether the catch block rethrows
TxRoutines ==
  {"initializeSeasonalityTables", "analyzeSeasonality", "analyzeSeasonalityFactors",
   "saveScfiData"}

Rethrows(routine) == routine \in {"analyzeSeasonalityFactors", "saveScfiData"}

\* statements awaited inside the try: BEGIN, the routine's work, COMMIT
TxStatements == <<"BEGIN", "work", "COMMIT">>

\* a routine whose client.release() follows COMMIT inside the try
ReleaseAfterCommit(t) ==
  IF t.path = "commit" THEN [t EXCEPT !.releases = @ + 1] ELSE t

\* finally { client.release() }: runs on every path out of try and catch
ReleaseInFinally(t) == [t EXCEPT !.releases = @ + 1]

\* const client = await pool.connect(), before the try: a rejection leaves
\* the routine without a client
TxConnect(s) ==
  /\ tx[s].pc = "idle"
  /\ \E routine \in TxRoutines, ok \in BOOLEAN :
       /\ tx' = [tx EXCEPT ![s] =
                   IF ok THEN [NoTx EXCEPT !.pc = "try", !.routine = routine]
                         ELSE [NoTx EXCEPT !.pc = "ended", !.routine = routine,
                                           !.path = "no client", !.result = "thrown"]]
       /\ checkedOut' = IF ok THEN checkedOut + 1 ELSE checkedOut
  /\ UNCHANGED <<quoteVars, analyzerVars, calculation_history, lookup,
                 freight_indices_scfi, read, verify, verified_emails>>

\* the next statement of the try is awaited: it resolves, or it rejects and
\* control passes to the catch
TxStatement(s) ==
  /\ tx[s].pc = "try"
  /\ \E ok \in BOOLEAN :
       tx' = [tx EXCEPT ![s] =
                IF ~ok THEN [@ EXCEPT !.pc = "catch"]
                ELSE IF tx[s].step + 1 = Len(TxStatements)
                  THEN [@ EXCEPT !.pc = "finally", !.step = @ + 1, !.path = "commit"]
                ELSE [@ EXCEPT !.step = @ + 1]]
  /\ UNCHANGED <<quoteVars, analyzerVars, calculation_history, lookup,
                 freight_indices_scfi, read, checkedOut, verify,
                 verified_emails>>

\* await client.query('ROLLBACK') in the catch: when it rejects, the catch
\* ends by throwing
TxRollback(s) ==
  /\ tx[s].pc = "catch"
  /\ \E ok \in BOOLEAN :
       tx' = [tx EXCEPT ![s] =
                [@ EXCEPT !.pc = "finally",
                          !.path = IF ok THEN "rollback" ELSE "rollback failed"]]
  /\ UNCHANGED <<quoteVars, analyzerVars, calculation_history, lookup,
                 freight_indices_scfi, read, checkedOut, verify,
                 verified_emails>>

\* the finally block, then the routine ends: it returns after COMMIT and
\* after a ROLLBACK whose catch does not rethrow, and throws otherwise
TxFinally(s) ==
  /\ tx[s].pc = "finally"
  /\ LET t == ReleaseInFinally(tx[s])
     IN  /\ tx' = [tx EXCEPT ![s] =
                     [t EXCEPT !.pc = "ended",
                               !.result =
                                 IF \/ t.path = "commit"
                                    \/ t.path = "rollback" /\ ~Rethrows(t.routine)
                                   THEN "returned" ELSE "thrown"]]
         /\ checkedOut' = checkedOut - (t.releases - tx[s].releases)
  /\ UNCHANGED <<quoteVars, analyzerVars, calculation_history, lookup,
                 freight_indices_scfi, read, verify, verified_emails>>

\* the caller goes on
TxReturn(s) ==
  /\ tx[s].pc = "ended"
  /\ tx' = [tx EXCEPT ![s] = NoTx]
  /\ UNCHANGED <<quoteVars, analyzerVars, calculation_history, lookup,
                 freight_indices_scfi, read, checkedOut, verify,
                 verified_emails>>

NextPool ==
  \/ \E s \in TxSlots : TxConnect(s)
  \/ \E s \in TxSlots : TxStatement(s)
  \/ \E s \in TxSlots : TxRollback(s)
  \/ \E s \in TxSlots : TxFinally(s)
  \/ \E s \in TxSlots : TxReturn(s)

SpecPool == Init /\ [][NextPool]_vars

\* verifyEmail and the table verified_emails (email VARCHAR(255) NOT NULL
\* UNIQUE).  Every await of the function is a step at which another call may
\* run.

\* addresses: their text, whether emailRegex matches it, and the domain that
\* email.split('@')[1].toLowerCase() yields
Addresses ==
  { [text |-> "ann@corp.com",       wellFormed |-> TRUE,  domain |-> "corp.com"],
    [text |-> "bob@host.org",       wellFormed |-> TRUE,  domain |-> "host.org"],
    [text |-> "eve@mailinator.com", wellFormed |-> TRUE,  domain |-> "mailinator.com"],
    [text |-> "joe@nowhere.test",   wellFormed |-> TRUE,  domain |-> "nowhere.test"],
    [text |-> "ann at corp.com",    wellFormed |-> FALSE, domain |-> "none"] }

DISPOSABLE_EMAIL_DOMAINS == {"10minutemail.com", "mailinator.com", "yopmail.com"}

\* the name service: domains with MX records, and domains with an address
\* record only, for which resolveMx rejects and lookup resolves
MxDomains == {"corp.com"}
AddressDomains == {"corp.com", "host.org"}

Resolves(domain) == domain \in MxDomains \cup AddressDomains

AddressOf(text) == CHOOSE a \in Addresses : a.text = text

Stored(table, email) == \E i \in 1..Len(table) : table[i] = email

RowsFor(table, email) == Cardinality({i \in 1..Len(table) : table[i] = email})

\* INSERT INTO verified_emails (email, verified_at) VALUES ($1, NOW()): the
\* UNIQUE constraint rejects a second row for an address
InsertVerified(table, email) ==
  IF Stored(table, email) THEN [table |-> table, rejected |-> TRUE]
  ELSE [table |-> Append(table, email), rejected |-> FALSE]

\* a request handler calls verifyEmail(email), which awaits the SELECT
VerifyCall(c) ==
  /\ verify[c].pc = "idle"
  /\ \E a \in Addresses :
       verify' = [verify EXCEPT ![c] = [NoCall EXCEPT !.pc = "select", !.email = a.text]]
  /\ UNCHANGED <<quoteVars, analyzerVars, calculation_history, lookup,
                 freight_indices_scfi, read, tx, checkedOut, verified_emails>>

\* the SELECT answers; a stored address is valid at once, otherwise the format
\* and the disposable list are checked and resolveMx is awaited
VerifySelect(c) ==
  /\ verify[c].pc = "select"
  /\ LET a == AddressOf(verify[c].email)
     IN  verify' = [verify EXCEPT ![c] =
           IF Stored(verified_emails, a.text)
             THEN [@ EXCEPT !.pc = "done", !.valid = TRUE,
                            !.message = "Email already verified"]
           ELSE IF ~a.wellFormed
             THEN [@ EXCEPT !.pc = "done", !.message = "Invalid email format"]
           ELSE IF a.domain \in DISPOSABLE_EMAIL_DOMAINS
             THEN [@ EXCEPT !.pc = "done",
                            !.message = "Disposable email addresses are not allowed"]
           ELSE [@ EXCEPT !.pc = "resolve"]]
  /\ UNCHANGED <<quoteVars, analyzerVars, calculation_history, lookup,
                 freight_indices_scfi, read, tx, checkedOut, verified_emails>>

\* resolveMx answers, or rejects and lookup is tried; then the INSERT is
\* awaited
VerifyResolve(c) ==
  /\ verify[c].pc = "resolve"
  /\ LET a == AddressOf(verify[c].email)
     IN  verify' = [verify EXCEPT ![c] =
           IF Resolves(a.domain)
             THEN [@ EXCEPT !.pc = "insert"]
             ELSE [@ EXCEPT !.pc = "done", !.message = "Domain does not exist"]]
  /\ UNCHANGED <<quoteVars, analyzerVars, calculation_history, lookup,
                 freight_indices_scfi, read, tx, checkedOut, verified_emails>>

\* the INSERT answers; a rejection is caught by the outer catch
VerifyInsert(c) ==
  /\ verify[c].pc = "insert"
  /\ LET ins == InsertVerified(verified_emails, verify[c].email)
     IN  /\ verified_emails' = ins.table
         /\ verify' = [verify EXCEPT ![c] =
              IF ins.rejected
                THEN [@ EXCEPT !.pc = "done",
                               !.message = "Error during verification process"]
                ELSE [@ EXCEPT !.pc = "done", !.valid = TRUE,
                               !.message = "Email verified successfully"]]
  /\ UNCHANGED <<quoteVars, analyzerVars, calculation_history, lookup,
                 freight_indices_scfi, read, tx, checkedOut>>

\* the handler answers the request: status 400 with the message unless valid
VerifyReturn(c) ==
  /\ verify[c].pc = "done"
  /\ verify' = [verify EXCEPT ![c] = NoCall]
  /\ UNCHANGED <<quoteVars, analyzerVars, calculation_history, lookup,
                 freight_indices_scfi, read, tx, checkedOut, verified_emails>>

NextVerify ==
  \/ \E c \in Callers : VerifyCall(c)
  \/ \E c \in Callers : VerifySelect(c)
  \/ \E c \in Callers : VerifyResolve(c)
  \/ \E c \in Callers : VerifyInsert(c)
  \/ \E c \in Callers : VerifyReturn(c)

SpecVerify == Init /\ [][NextVerify]_vars

----------------------------------------------------------------------------
(* Properties *)

Returned == pc = "done" /\ res.kind = "result"

\* C1: every result returned by calculateFreightRate, from sources or from the
\* fallback, for any weight and any seasonality factor, has
\* minRate <= base rate <= maxRate on the returned fields (the three share den)
C1_BandHoldsBaseRate ==
  (Returned /\ calc \in {"basic", "enhanced", "mock"})
    => res.minRate <= BaseRateOf(res) /\ BaseRateOf(res) <= res.maxRate

\* C2: the reliability field of every returned result lies in [0, 1], for any
\* number of available sources and any dispersion of their values
C2_ReliabilityInUnitInterval ==
  (Returned /\ "reliability" \in res.fields)
    => /\ res.relDen > 0
       /\ 0 <= res.relNum
       /\ res.relNum <= res.relDen

\* a quote from three disagreeing sources whose reliability is strictly inside
C2_DispersedQuoteReturned ==
  /\ Returned
  /\ calc = "basic"
  /\ res.sourceCount = 3
  /\ \E i, j \in 1..3 : adapters[i] # adapters[j]
  /\ 70 < res.relNum
  /\ res.relNum < 100

\* C3: without any reading, two quotes for the same route return the same base
\* rate: it depends on the route only, not on randomness, time or call history
C3_FallbackRepeats ==
  (Returned /\ Sourceless(res) /\ prev # NoPrev) => BaseRateOf(res) = prev.base

\* C4: calculateFreightRate never propagates an exception to its caller,
\* whatever the input and whichever collaborator fails
C4_NeverThrows == res.kind # "thrown"

\* C5: with zero readings available the quote does not fail: it returns the
\* result of the fallback path
C5_ZeroReadingsFallBack ==
  (pc = "done" /\ adapters # <<>> /\ sourcesData = <<>>)
    => res.kind = "result" /\ Sourceless(res)

\* C6: the failure of one source adapter only omits that source: every other
\* reading, queried before or after it, is still used, and the quote stays on
\* the source path as long as one source answered
C6_FailureOmitsOnlyThatSource ==
  LET names == CASE calc = "basic" -> BasicSources
                 [] calc = "enhanced" -> EnhancedSources
                 [] calc = "indexed" -> IndexedSources
                 [] OTHER -> <<>>
  IN  (/\ pc = "done"
       /\ calc \in {"basic", "enhanced", "indexed"}
       /\ adapters # <<>>
       /\ \E i \in 1..Len(adapters) : adapters[i] = Thrown
       /\ \E i \in 1..Len(adapters) : adapters[i] > 0)
        => /\ res.kind = "result"
           /\ res.path = "sources"
           /\ \A i \in 1..Len(adapters) : adapters[i] > 0 => names[i] \in res.sources

\* C7: with one or more readings the base rate is the sum of value x weight over
\* the sum of the weights, rounded to the nearest integer (the value as the
\* calculator takes it: the enhanced one multiplies it by its normalization factor)
C7_BaseIsRoundedWeightedMean ==
  (Returned /\ res.path = "sources" /\ calc \in {"basic", "enhanced"})
    => IF calc = "basic"
         THEN res.base = RoundDiv(SumSeq([i \in 1..Len(sourcesData) |->
                                           sourcesData[i].rate * sourcesData[i].weight]),
                                  SumSeq([i \in 1..Len(sourcesData) |->
                                           sourcesData[i].weight]))
         ELSE res.baseRate =
                res.den * RoundDiv(SumSeq([i \in 1..Len(sourcesData) |->
                                             sourcesData[i].rate
                                             * sourcesData[i].normalizationFactor
                                             * sourcesData[i].weight]),
                                   10 * SumSeq([i \in 1..Len(sourcesData) |->
                                                  sourcesData[i].weight]))

\* C8: raising the value one source reports, the others held fixed, never
\* lowers the weighted base rate
C8_BaseRateMonotone ==
  LET Raise(data, i, by) == [data EXCEPT ![i].rate = @ + by]
      steps == {1, 7, 1200}
  IN  /\ (Returned /\ res.path = "sources" /\ calc = "basic")
          => \A i \in 1..Len(sourcesData), by \in steps :
               WeightedBaseRate(Raise(sourcesData, i, by)) >= res.base
      /\ (Returned /\ res.path = "sources" /\ calc = "enhanced")
          => \A i \in 1..Len(sourcesData), by \in steps :
               calculateWeightedRate(Raise(sourcesData, i, by)).ws * 100 >= res.baseRate
      /\ (Returned /\ res.path = "sources" /\ calc = "mock")
          => LET routeKey == <<req.origin, req.destination>>
             IN  \A i \in 1..Len(DATA_SOURCES(routeKey)), by \in steps, month \in Months :
                   MockRoundedAvgRate(Raise(DATA_SOURCES(routeKey), i, by),
                                      MockFactor(routeKey, req.containerType, month))
                     >= MockRoundedAvgRate(DATA_SOURCES(routeKey),
                                           MockFactor(routeKey, req.containerType, month))

\* a quote from three sources whose base rate rises when the first reports more
C8_RaisedReadingRaisesBase ==
  /\ Returned
  /\ calc = "basic"
  /\ Len(sourcesData) = 3
  /\ WeightedBaseRate([sourcesData EXCEPT ![1].rate = @ + 1200]) > res.base

\* C9: the band comes from the sample standard deviation sd (n - 1 denominator,
\* 0 for one reading) of the raw readings: minRate = round(max(base - sd,
\* 0.8 base)) and maxRate = round(min(base + sd, 1.2 base)); readings 1800,
\* 1900, 2000 give 1900, 1800, 2000.  Here sd^2 = N / D with
\* N = n sum(v^2) - (sum v)^2 and D = n (n - 1) (N = 0, D = 1 for one reading)
C9_BandFromSampleDeviation ==
  LET v == [i \in 1..Len(sourcesData) |-> sourcesData[i].rate]
      n == Len(v)
      N == n * SumSq(v) - SumSeq(v) * SumSeq(v)
      D == IF n > 1 THEN n * (n - 1) ELSE 1
      b == ctx.baseRate
      \* 2 sd <= e and 2 sd < e
      SdLeq(e) == e >= 0 /\ LeqMul(4, N, e * e, D)
      SdLess(e) == e > 0 /\ ~LeqMul(e * e, D, 4, N)
      lo == ctx.minRate
      hi == ctx.maxRate
  IN  (Returned /\ calc = "basic" /\ res.path = "sources")
        => /\ SdLeq(2 * (b - lo) + 1) \/ 10 * lo - 5 <= 8 * b
           /\ ~SdLeq(2 * (b - lo) - 1)
           /\ 8 * b < 10 * lo + 5
           /\ ~SdLess(2 * (hi - b) - 1)
           /\ 10 * hi - 5 <= 12 * b
           /\ SdLess(2 * (hi - b) + 1) \/ 12 * b < 10 * hi + 5
           /\ adapters = <<1800, 1900, 2000>>
                 => /\ b = 1900 /\ lo = 1800 /\ hi = 2000
                    /\ res.rate = b => res.minRate = 1800 /\ res.maxRate = 2000

\* the quote of scenario B
C9_ScenarioBReturned ==
  /\ Returned
  /\ calc = "basic"
  /\ adapters = <<1800, 1900, 2000>>
  /\ req.weight = 20000
  /\ res.minRate = 1800
  /\ res.maxRate = 2000

C11_SecondAgreeingSourceRaisesReliability ==
  /\ (Returned /\ calc = "basic" /\ res.path = "sources" /\ Len(sourcesData) = 1)
       => \A j \in 1..Len(BasicSources) :
            (/\ BasicSources[j] # sourcesData[1].source
             /\ SOURCE_WEIGHTS[BasicSources[j]] = sourcesData[1].weight)
              => LET two == sourcesData
                            \o <<[sourcesData[1] EXCEPT !.source = BasicSources[j]]>>
                 IN  res.relNum
                       < BasicQuote(two, Ports[req.origin], Ports[req.destination],
                                    [isObject |-> TRUE, code |-> req.containerType],
                                    req.weight).relNum
  /\ (Returned /\ calc = "enhanced" /\ Len(sourcesData) = 1)
       => \A j \in 1..Len(EnhancedSources) :
            (/\ EnhancedSources[j] # sourcesData[1].source
             /\ EnhancedWeights[EnhancedSources[j]] = sourcesData[1].weight)
              => LET two == sourcesData
                            \o <<[sourcesData[1] EXCEPT
                                    !.source = EnhancedSources[j],
                                    !.normalizationFactor =
                                       NORMALIZATION_FACTORS[EnhancedSources[j]]]>>
                     one == calculateWeightedRate(sourcesData)
                     both == calculateWeightedRate(two)
                 IN  ~LeqMul(both.relNum, one.relDen, one.relNum, both.relDen)
  /\ (Returned /\ calc = "mock" /\ res.path = "sources")
       => LET sources == DATA_SOURCES(<<req.origin, req.destination>>)
          IN  \A i, j \in 1..Len(sources) :
                (/\ i # j
                 /\ MockSourceWeight(sources[i].name) = MockSourceWeight(sources[j].name))
                  => MockReliability(<<sources[i]>>)
                       < MockReliability(<<sources[i],
                                           [sources[j] EXCEPT !.rate = sources[i].rate]>>)

\* a quote returned from one source, with a second source of the same weight
\* left to report
C11_SingleSourceQuoteReturned ==
  /\ Returned
  /\ calc = "enhanced"
  /\ Len(sourcesData) = 1
  /\ res.relNum * 10 = res.relDen
  /\ \E j \in 1..Len(EnhancedSources) :
       /\ EnhancedSources[j] # sourcesData[1].source
       /\ EnhancedWeights[EnhancedSources[j]] = sourcesData[1].weight
       /\ NORMALIZATION_FACTORS[EnhancedSources[j]] # sourcesData[1].normalizationFactor

\* C12: the seasonality multiplier applied to a quote is the confidence-damped
\* 1.0 + (factor - 1.0) * confidence of the stored row, not the raw factor: a
\* row with factor 1.2 and confidence 0.5 multiplies the rate by 1.10
C12_DampedFactorApplied ==
  (Returned /\ calc = "enhanced" /\ ctx.season.kind = "row")
    => /\ 100 * res.seasonalityFactor
            = adjustedFactor(ctx.season.factor, ctx.season.confidence)
       /\ (ctx.season.factor = 120 /\ ctx.season.confidence = 50)
            => res.seasonalityFactor = 110

\* C15: a failed calculation-history write neither changes nor aborts the
\* quote: the caller of a request that passed validation still receives the
\* computed result
C15_FailedHistoryWriteKeepsQuote ==
  (pc = "done" /\ ctx.historyWrite = "failed") => res.kind = "result"

\* C16: a quote request with an unknown port id, an unknown container type or
\* a non-positive weight is rejected before any source is queried or any rate
\* computed, and no calculation-history row is written for it
C16_InvalidRequestRejected ==
  (/\ pc = "done"
   /\ calc = "enhanced"
   /\ \/ req.origin \notin PortIds
      \/ req.destination \notin PortIds
      \/ req.containerType \notin EnhancedKnownTypes
      \/ req.weight <= 0)
    => /\ res.kind \in {"rejected", "thrown"}
       /\ sourcesData = <<>>
       /\ ctx.historyWrite = "none"

\* C18: after any sequence of imports from calculation history, imports from
\* the index tables and synthetic generation runs, repeated ones included, the
\* historical rate store holds at most one row per (origin, destination,
\* container type, date, source), and a write of a duplicate key raises no error
C18_OneRowPerKey ==
  /\ \A i, j \in 1..Len(historical_rates) :
       Key(historical_rates[i]) = Key(historical_rates[j]) => i = j
  /\ ~audit.raised

\* a batch wrote rows whose keys were all stored already
C18_DuplicateBatchWritten ==
  /\ audit.writes > 0
  /\ audit.conflicts = audit.writes
  /\ Len(historical_rates) > 0

\* C14: retraining passes never overlap: while one pass is in flight no
\* second pass is running
C14_PassesNeverOverlap ==
  \A g, h \in Handlers :
    analysis[g].pc = "running" /\ analysis[h].pc = "running" => g = h

\* C17: analyzeSeasonalityFactors always ends by returning a boolean: every
\* pass that has ended answered true or false, and none threw
C17_AnalysisAnswersBoolean ==
  \A h \in Handlers :
    analysis[h].pc = "done" => analysis[h].answer \in {"true", "false"}

\* C19: the historical rate store is append-only: in every step, each key
\* stored before the step is stored after it
C19_StoreAppendOnly ==
  [][\A i \in 1..Len(historical_rates) :
       \E j \in 1..Len(historical_rates') :
         Key(historical_rates'[j]) = Key(historical_rates[i])]_vars

\* C20: no stored seasonality factor lies outside [0.7, 1.3]
C20_StoredFactorsClamped ==
  \A k \in DOMAIN seasonality_factors :
    /\ 10 * seasonality_factors[k].factor[1] >= 7 * seasonality_factors[k].factor[2]
    /\ 10 * seasonality_factors[k].factor[1] <= 13 * seasonality_factors[k].factor[2]

\* C13: once a training pass has completed on the store as it is, the lookup
\* for every region pair of the store and every month holding at least three
\* observations returns the factor the pass computes from the store (in
\* module A, that factor damped by its confidence)
C13_LookupReflectsStore ==
  trained =>
    \A pair \in PairsOf(historical_rates), m \in 1..12 :
      Cardinality(RowsOfMonth(historical_rates, pair, m)) >= 3 =>
        IF module = "A"
          THEN getSeasonalityFactorA(seasonality_factors, pair[1], pair[2], m)
                 = Damped(FactorA(historical_rates, pair, m))
          ELSE getSeasonalityFactorB(seasonality_factors, pair[1], pair[2], m).factor
                 = FactorB(historical_rates, pair, m).factor

\* the observations of the month of a stored seasonality row
Observations(k) == Cardinality(RowsOfMonth(historical_rates, <<k[1], k[2]>>, k[3]))

\* C21: after a completed pass on the store as it is, the confidence stored
\* with every factor trained from at least three observations of the month
\* is min(1.0, n / 20), n the number of those observations
C21_ConfidenceIsCountOverTwenty ==
  trained =>
    \A k \in DOMAIN seasonality_factors :
      Observations(k) >= 3 =>
        seasonality_factors[k].confidence = Min(100, 5 * Observations(k))

\* C22: after a completed pass on the store as it is, every month of a region
\* pair of the store with fewer than three observations has the baseline value
\* of the month stored with confidence 0.5
C22_SparseMonthGetsBaseline ==
  trained =>
    \A pair \in PairsOf(historical_rates), m \in 1..12 :
      Cardinality(RowsOfMonth(historical_rates, pair, m)) < 3 =>
        /\ <<pair[1], pair[2], m>> \in DOMAIN seasonality_factors
        /\ seasonality_factors[<<pair[1], pair[2], m>>] = BaseFactorRow(m)

\* the row the lookup is to return for the arguments of the call: the exact
\* row, else the origin's wildcard row, else the destination's, else the
\* generic one, else the baseline of the month with confidence 0.5
PreferredRow ==
  LET t == seasonality_factors
      o == lookup.origin
      d == lookup.destination
      m == lookup.month
  IN  IF <<o, d, m>> \in DOMAIN t THEN t[<<o, d, m>>]
      ELSE IF <<o, "Any", m>> \in DOMAIN t THEN t[<<o, "Any", m>>]
      ELSE IF <<"Any", d, m>> \in DOMAIN t THEN t[<<"Any", d, m>>]
      ELSE IF <<"Any", "Any", m>> \in DOMAIN t THEN t[<<"Any", "Any", m>>]
      ELSE BaseFactorRow(m)

\* C23: every seasonality lookup answers the exact row when one exists, else
\* the best wildcard row (origin-specific, then destination-specific, then
\* generic), else the baseline of the month with confidence 0.5
C23_LookupPrefersMostSpecificRow ==
  lookup.pc = "done" => lookup.answer = PreferredRow

\* C24: a quote whose fuel-price or port-distance lookup failed completes
\* with the fuel surcharge 0
C24_FailedFuelLookupGivesZeroSurcharge ==
  (Returned /\ calc = "enhanced" /\ ctx.fuelLookup = "error")
    => res.fuelSurcharge = 0

\* C25: the weight adjustment of a returned quote stays within bounds.  In
\* calculateFreightRate of lines 34-141: under the standard weight of the
\* requested container type the rate is at least 90% of the base rate (to the
\* rounding), at that weight it is the base rate, and it never exceeds 130%
\* of it.  In calculateFinalRate: the rate less the fuel surcharge never
\* exceeds 130% of what the standard weight gives
C25_WeightAdjustmentBounded ==
  /\ (Returned /\ calc = "basic" /\ res.path = "sources") =>
       /\ req.weight < standardWeights[req.containerType]
            => 10 * res.rate + 5 >= 9 * res.base
       /\ req.weight = standardWeights[req.containerType] => res.rate = res.base
       /\ 10 * res.rate <= 13 * res.base + 5
  /\ (Returned /\ calc = "enhanced" /\ res.path = "sources") =>
       LET wr == calculateWeightedRate(sourcesData)
           atStandard == calculateFinalRate(wr.ws, wr.tw, ctx.seasonalityFactor,
                                            req.containerType,
                                            finalStandardWeight(req.containerType), 0)
       IN  10 * (res.rate - res.fuelSurcharge) <= 13 * atStandard + 10

\* C26: the base rate calculateBaseRate returns is in [1500, 2999] for every
\* pair of port names, those whose hash is negative or -2^31 included
C26_FallbackBaseRateInRange ==
  (pc = "done" /\ res.path = "fallback" /\ calc \in {"basic", "indexed"})
    => 1500 <= res.baseRate /\ res.baseRate <= 2999

\* a base rate was returned for names whose running hash ended at -2^31
C26_HashWrappedToMinInt ==
  /\ pc = "done"
  /\ calc = "basic"
  /\ res.path = "fallback"
  /\ HashChars(HashChars(<<0, 0>>, adapters[1]), adapters[2]) = <<2 ^ 15, 0>>

\* C27: a read of the adapter never throws to its caller: it answers a row,
\* null or a substitute reading
C27_AdapterReadNeverThrows ==
  read.pc = "done" => read.answer.kind \in {"row", "null", "mock"}

\* a read whose query rejected has answered
C27_FailedReadAnswered ==
  /\ read.pc = "done"
  /\ read.failure # "none"
  /\ read.answer.kind \in {"null", "mock"}

\* the class of a row for the route Shanghai -> Rotterdam: 1 when it matches
\* origin and destination, 2 the origin only, 3 the destination only, 4 the
\* composite index, 5 otherwise
RouteClass(route) ==
  IF MentionsInOrder(route, "Shanghai", "Rotterdam") THEN 1
  ELSE IF Mentions(route, "Shanghai") THEN 2
  ELSE IF Mentions(route, "Rotterdam") THEN 3
  ELSE IF route = <<"SCFI Composite Index">> THEN 4
  ELSE 5

\* C28: a read by port names that met no failure answers a row of the best
\* class the table holds (both ports, then origin only, then destination only,
\* then the composite index), whatever the dates of the rows
C28_BestClassRowServed ==
  (read.pc = "done" /\ read.impl = "scraper" /\ read.failure = "none") =>
    \A r \in freight_indices_scfi :
      RouteClass(r.route) <= 4 =>
        /\ read.answer.kind = "row"
        /\ RouteClass(read.answer.route) <= RouteClass(r.route)

\* C29: every routine that has ended with a client has released it exactly
\* once, and the clients checked out are those of the routines still between
\* pool.connect() and their finally block
C29_ClientReleasedExactlyOnce ==
  /\ \A s \in TxSlots :
       (tx[s].pc = "ended" /\ tx[s].path # "no client") => tx[s].releases = 1
  /\ \A s \in TxSlots : tx[s].pc \in {"try", "catch", "finally"} => tx[s].releases = 0
  /\ checkedOut = Cardinality({s \in TxSlots : tx[s].pc \in {"try", "catch", "finally"}})

\* a routine whose ROLLBACK failed has ended, its client released
C29_EndedAfterFailedRollback ==
  \E s \in TxSlots :
    /\ tx[s].pc = "ended"
    /\ tx[s].path = "rollback failed"
    /\ tx[s].releases = 1

\* C30: a verifyEmail call for a well-formed, non-disposable address whose
\* domain resolves answers valid = true, and the table holds at most one row
\* for each address
C30_GoodAddressAlwaysValid ==
  /\ \A c \in Callers :
       LET a == AddressOf(verify[c].email)
       IN  (/\ verify[c].pc = "done"
            /\ a.wellFormed
            /\ a.domain \notin DISPOSABLE_EMAIL_DOMAINS
            /\ Resolves(a.domain))
           => verify[c].valid
  /\ \A a \in Addresses : RowsFor(verified_emails, a.text) <= 1
====
